---- MODULE Spec2Model ----
(***************************************************************************)
(* Inventory backend (FastAPI + PostgreSQL): the request handlers of      *)
(* routes/*.py over the tables they read and write, the transaction scope *)
(* of config/database.py, and the connection pool.                        *)
(*                                                                         *)
(* The tables live in the variable db; every handler runs its statements  *)
(* on a working copy of db and leaves the scope through GetDbCursorExit,  *)
(* which commits the working copy or rolls back to the state at entry.    *)
(* The stored procedures and views of the database are not part of the    *)
(* Python sources; they are modelled from the written specification       *)
(* (the Proc... and Vista... operators).                                  *)
(***************************************************************************)
EXTENDS Integers, Sequences, FiniteSets, TLC

VARIABLES db, now, req, resp, pool, conn, tx, archivos

vars == <<db, now, req, resp, pool, conn, tx, archivos>>

(***************************************************************************)
(* Bounds of the model                                                     *)
(***************************************************************************)
MaxProd == 2
MaxStock == 2
MaxPrecio == 1
MaxVentas == 2
MaxCompras == 1
MaxRegistros == 1
MaxT == 3
MaxMes == 2
MaxMonto == 1
NumReq == 2
NumProc == 2
MaxCommits == 2

\* psycopg2.pool.SimpleConnectionPool(1, 10, ...)
MaxConn == 10
DiasPorMes == 2

\* LIMIT 8 of the top-products query
TopLimit == 8

ProdIds == 1..MaxProd
Precios == 1..MaxPrecio
Tiempos == 1..MaxT
Meses == 1..MaxMes
Montos == 1..MaxMonto
Reqs == 1..NumReq
Procs == 1..NumProc

\* Optional[...] request fields: the empty set is None, {v} is the value v
Opt(S) == {{}} \cup {{v} : v \in S}

\* Faults the database can raise inside a scope
Faults == {"none", "db_error", "readback"}

(***************************************************************************)
(* models/schemas.py: field constraints checked before the handler runs   *)
(***************************************************************************)
\* ProductoBase.stock: int = Field(0, ge=0); costo / precio_venta ge=0
ValidProductoCreate(stock, precio) == stock >= 0 /\ precio >= 0


\* ProductoUpdate.stock: Optional[int] = Field(None, ge=0)
ValidProductoUpdate(stock, precio) ==
    (\A v \in stock : v >= 0) /\ (\A v \in precio : v >= 0)

\* VentaBase.cantidad / CompraBase.cantidad: Field(..., gt=0)
ValidCantidad(cantidad) == cantidad > 0

(***************************************************************************)
(* config/database.py: get_db_cursor                                       *)
(***************************************************************************)
GetDbCursorExit_CommitInFinally(before, work, raised, commit) ==
    IF commit THEN work ELSE before

\* try: yield; if commit: conn.commit()  /  except: conn.rollback(); raise
GetDbCursorExit(before, work, raised, commit) ==
    IF raised THEN before
    ELSE IF commit THEN work ELSE before

(***************************************************************************)
(* The except clauses of the route handlers                                *)
(***************************************************************************)
HandlerStatus_SinReRaise(exc, clausulas) ==
    IF exc = "UniqueViolation" /\ "UniqueViolation" \in clausulas THEN 400
    ELSE 500

\* The except clauses of a handler, in order: except HTTPException: raise /
\* except psycopg2.errors.UniqueViolation: 400 / except Exception: 500
HandlerStatus(exc, clausulas) ==
    IF exc \in {"HTTP400", "HTTP404"} /\ "HTTPException" \in clausulas
    THEN (IF exc = "HTTP404" THEN 404 ELSE 400)
    ELSE IF exc = "UniqueViolation" /\ "UniqueViolation" \in clausulas THEN 400
    ELSE 500

ClausulasCrearCategoria == {"UniqueViolation"}
ClausulasActualizarCategoria == {"HTTPException", "UniqueViolation"}
ClausulasEliminarCategoria == {"HTTPException"}
ClausulasCrearProducto == {"UniqueViolation"}
ClausulasCrearProductoConImagen == {"HTTPException"}
ClausulasActualizarProducto == {"HTTPException"}
ClausulasEliminarProducto == {"HTTPException"}
ClausulasEliminarRegistro == {"HTTPException"}

(***************************************************************************)
(* Stored procedures of the database (from the written specification)     *)
(***************************************************************************)
\* registrar_venta(id_producto, cantidad, notas): compare-and-decrement
ProcRegistrarVenta(d, idp, cantidad, t) ==
    IF idp \notin DOMAIN d.productos
    THEN [err |-> "Producto no encontrado", db |-> d]
    ELSE IF d.productos[idp].stock < cantidad
    THEN [err |-> "Stock insuficiente", db |-> d]
    ELSE [err |-> "none",
          db |-> [d EXCEPT
                    !.productos[idp].stock = @ - cantidad,
                    !.ventas = Append(@,
                        [id_producto |-> idp, cantidad |-> cantidad,
                         precio_unitario |-> d.productos[idp].precio_venta,
                         total |-> cantidad * d.productos[idp].precio_venta,
                         fecha |-> t])]]

\* registrar_compra(id_producto, cantidad, costo_unitario, notas)
ProcRegistrarCompra(d, idp, cantidad, costo, t) ==
    IF idp \notin DOMAIN d.productos
    THEN [err |-> "Producto no encontrado", db |-> d]
    ELSE [err |-> "none",
          db |-> [d EXCEPT
                    !.productos[idp].stock = @ + cantidad,
                    !.compras = Append(@,
                        [id_producto |-> idp, cantidad |-> cantidad,
                         costo_unitario |-> costo,
                         total |-> cantidad * costo,
                         fecha |-> t])]]

(***************************************************************************)
(* State                                                                   *)
(***************************************************************************)
EmptyDb ==
    [productos |-> <<>>, ventas |-> <<>>, compras |-> <<>>,
     registros |-> <<>>, regSeq |-> 0, periodos |-> <<>>]

NoData == [none |-> TRUE]

NoResp == [op |-> "none", status |-> 0, fault |-> "none", data |-> NoData]

ReqIdle == [pc |-> "idle", mes |-> 0, fi |-> 0, ff |-> 0]

NoResult ==
    [kind |-> "none", bodyRaised |-> FALSE, raised |-> FALSE,
     commitCalled |-> FALSE, rollbackCalled |-> FALSE, committed |-> 0]

\* static/images: no file stored, no name generated yet
NoArchivos == [seq |-> 0, files |-> {}]

ConnIdle ==
    [pc |-> "idle", op |-> "none", wrote |-> 0, raised |-> FALSE,
     result |-> NoResult]

\* connection_pool = None; empty tables; no request in flight
Init ==
    /\ db = EmptyDb
    /\ now = 1
    /\ req = <<>>
    /\ resp = NoResp
    /\ pool = [created |-> FALSE, used |-> 0]
    /\ conn = <<>>
    /\ tx = 0
    /\ archivos = NoArchivos

\* The same, with the request slots of the period close
InitPeriodo ==
    /\ db = EmptyDb
    /\ now = 1
    /\ req = [r \in Reqs |-> ReqIdle]
    /\ resp = NoResp
    /\ pool = [created |-> FALSE, used |-> 0]
    /\ conn = <<>>
    /\ tx = 0
    /\ archivos = NoArchivos

\* The same, with the workers that use the pool
InitPool ==
    /\ db = EmptyDb
    /\ now = 1
    /\ req = <<>>
    /\ resp = NoResp
    /\ pool = [created |-> FALSE, used |-> 0]
    /\ conn = [p \in Procs |-> ConnIdle]
    /\ tx = 0
    /\ archivos = NoArchivos

Reply(op, status, fault) ==
    [op |-> op, status |-> status, fault |-> fault, data |-> NoData]

\* A response together with the request it answers
ReplyTo(op, status, fault, data) ==
    [op |-> op, status |-> status, fault |-> fault, data |-> data]

(***************************************************************************)
(* routes/ventas.py, routes/compras.py                                     *)
(***************************************************************************)
StatusVenta_Intercambiado(msg) ==
    IF msg = "Stock insuficiente" THEN 404
    ELSE IF msg = "Producto no encontrado" THEN 400
    ELSE 500

\* except Exception as e: the status is chosen by the text of the error
StatusVenta(msg) ==
    IF msg = "Stock insuficiente" THEN 400
    ELSE IF msg = "Producto no encontrado" THEN 404
    ELSE 500

StatusCompra(msg) ==
    IF msg = "Producto no encontrado" THEN 404 ELSE 500

ScopeError_SinReadback(fault, procErr) ==
    IF fault = "db_error" THEN "db_error"
    ELSE IF procErr # "none" THEN procErr
    ELSE "none"

\* What ends the scope of a registration: the first statement failing, the
\* procedure raising, or the read-back finding no row (zip over None raises)
ScopeError(fault, procErr) ==
    IF fault = "db_error" THEN "db_error"
    ELSE IF procErr # "none" THEN procErr
    ELSE IF fault = "readback" THEN "readback"
    ELSE "none"

\* POST /ventas/
RegistrarVenta(idp, cantidad, fault) ==
    /\ Len(db.ventas) < MaxVentas
    /\ UNCHANGED <<archivos, now, req, pool, conn, tx>>
    /\ IF ~ValidCantidad(cantidad)
       THEN /\ db' = db
            /\ resp' = ReplyTo("registrar_venta", 422, "none",
                              [id_producto |-> idp, cantidad |-> cantidad])
       ELSE LET r == ProcRegistrarVenta(db, idp, cantidad, now)
                work == IF fault = "db_error" THEN db ELSE r.db
                msg == ScopeError(fault, r.err)
            IN /\ db' = GetDbCursorExit(db, work, msg # "none", TRUE)
               /\ resp' = ReplyTo("registrar_venta",
                                IF msg = "none" THEN 201 ELSE StatusVenta(msg),
                                fault,
                                [id_producto |-> idp, cantidad |-> cantidad])

\* POST /compras/
RegistrarCompra(idp, cantidad, costo, fault) ==
    /\ Len(db.compras) < MaxCompras
    /\ idp \in DOMAIN db.productos => db.productos[idp].stock + cantidad <= MaxStock
    /\ UNCHANGED <<archivos, now, req, pool, conn, tx>>
    /\ IF ~ValidCantidad(cantidad)
       THEN /\ db' = db
            /\ resp' = ReplyTo("registrar_compra", 422, "none",
                              [id_producto |-> idp, cantidad |-> cantidad])
       ELSE LET r == ProcRegistrarCompra(db, idp, cantidad, costo, now)
                work == IF fault = "db_error" THEN db ELSE r.db
                msg == ScopeError(fault, r.err)
            IN /\ db' = GetDbCursorExit(db, work, msg # "none", TRUE)
               /\ resp' = ReplyTo("registrar_compra",
                                IF msg = "none" THEN 201 ELSE StatusCompra(msg),
                                fault,
                                [id_producto |-> idp, cantidad |-> cantidad])

(***************************************************************************)
(* routes/productos.py                                                     *)
(***************************************************************************)
ProductoRow(stock, precio) == [stock |-> stock, precio_venta |-> precio]

\* INSERT INTO productos (...) VALUES (...) RETURNING *
InsertProducto(d, stock, precio) ==
    [d EXCEPT !.productos = Append(@, ProductoRow(stock, precio))]

\* UPDATE productos SET <the supplied fields> WHERE id_producto = idp
UpdateProducto_StockPorDefecto(d, idp, stock, precio) ==
    [d EXCEPT !.productos[idp] =
        [stock |-> IF stock = {} THEN 0 ELSE CHOOSE v \in stock : TRUE,
         precio_venta |-> IF precio = {} THEN @.precio_venta
                          ELSE CHOOSE v \in precio : TRUE]]

UpdateProducto(d, idp, stock, precio) ==
    [d EXCEPT !.productos[idp] =
        [stock |-> IF stock = {} THEN @.stock ELSE CHOOSE v \in stock : TRUE,
         precio_venta |-> IF precio = {} THEN @.precio_venta
                          ELSE CHOOSE v \in precio : TRUE]]

\* POST /productos/ (JSON body, ProductoCreate)
CrearProducto(stock, precio, fault) ==
    /\ Len(db.productos) < MaxProd
    /\ UNCHANGED <<archivos, now, req, pool, conn, tx>>
    /\ IF ~ValidProductoCreate(stock, precio)
       THEN /\ db' = db
            /\ resp' = Reply("crear_producto", 422, "none")
       ELSE LET work == IF fault = "db_error" THEN db
                        ELSE InsertProducto(db, stock, precio)
            IN /\ db' = GetDbCursorExit(db, work, fault # "none", TRUE)
               /\ resp' = Reply("crear_producto",
                                IF fault = "none" THEN 201 ELSE 500, fault)

\* POST /productos/con-imagen/ (multipart form: stock: int = Form(0))
CrearProductoConImagen(stock, precio, imagen, fault) ==
    /\ Len(db.productos) < MaxProd
    /\ UNCHANGED <<archivos, now, req, pool, conn, tx>>
    /\ IF imagen = "invalid"
       THEN /\ db' = db
            /\ resp' = Reply("crear_producto_con_imagen", 400, "none")
       ELSE LET work == IF fault = "db_error" THEN db
                        ELSE InsertProducto(db, stock, precio)
            IN /\ db' = GetDbCursorExit(db, work, fault # "none", TRUE)
               /\ resp' = Reply("crear_producto_con_imagen",
                                IF fault = "none" THEN 201 ELSE 500, fault)

\* PUT /productos/{id_producto} (JSON body, ProductoUpdate)
ActualizarProducto(idp, stock, precio, fault) ==
    /\ UNCHANGED <<archivos, now, req, pool, conn, tx>>
    /\ IF ~ValidProductoUpdate(stock, precio)
       THEN /\ db' = db
            /\ resp' = ReplyTo("actualizar_producto", 422, "none",
                           [id_producto |-> idp, con_stock |-> stock # {}])
       ELSE IF idp \notin DOMAIN db.productos
       THEN /\ db' = db
            /\ resp' = ReplyTo("actualizar_producto", 404, "none",
                           [id_producto |-> idp, con_stock |-> stock # {}])
       ELSE IF stock = {} /\ precio = {}
       THEN /\ db' = db
            /\ resp' = ReplyTo("actualizar_producto", 200, "none",
                           [id_producto |-> idp, con_stock |-> stock # {}])
       ELSE LET work == IF fault = "db_error" THEN db
                        ELSE UpdateProducto(db, idp, stock, precio)
            IN /\ db' = GetDbCursorExit(db, work, fault # "none", TRUE)
               /\ resp' = ReplyTo("actualizar_producto",
                                IF fault = "none" THEN 200 ELSE 500, fault,
                                [id_producto |-> idp, con_stock |-> stock # {}])

\* PUT /productos/con-imagen/{id_producto} (form: stock: Optional[int] = Form(None))
ActualizarProductoConImagen(idp, stock, precio, imagen, fault) ==
    /\ UNCHANGED <<archivos, now, req, pool, conn, tx>>
    /\ IF idp \notin DOMAIN db.productos
       THEN /\ db' = db
            /\ resp' = ReplyTo("actualizar_producto_con_imagen", 404, "none",
                           [id_producto |-> idp, con_stock |-> stock # {}])
       ELSE IF imagen = "invalid"
       THEN /\ db' = db
            /\ resp' = ReplyTo("actualizar_producto_con_imagen", 400, "none",
                           [id_producto |-> idp, con_stock |-> stock # {}])
       ELSE IF stock = {} /\ precio = {} /\ imagen = "none"
       THEN /\ db' = db
            /\ resp' = ReplyTo("actualizar_producto_con_imagen", 200, "none",
                           [id_producto |-> idp, con_stock |-> stock # {}])
       ELSE LET work == IF fault = "db_error" THEN db
                        ELSE UpdateProducto(db, idp, stock, precio)
            IN /\ db' = GetDbCursorExit(db, work, fault # "none", TRUE)
               /\ resp' = ReplyTo("actualizar_producto_con_imagen",
                                IF fault = "none" THEN 200 ELSE 500, fault,
                                [id_producto |-> idp, con_stock |-> stock # {}])

(***************************************************************************)
(* The service over products, sales and purchases                         *)
(***************************************************************************)
StockInputs == (0 - 1)..MaxStock
Cantidades == 0..MaxStock
Imagenes == {"none", "valid", "invalid"}
InsertFaults == {"none", "db_error"}

Next ==
    \/ \E s \in StockInputs, p \in Precios, f \in InsertFaults :
          CrearProducto(s, p, f)
    \/ \E s \in StockInputs, p \in Precios, i \in Imagenes, f \in InsertFaults :
          CrearProductoConImagen(s, p, i, f)
    \/ \E idp \in ProdIds, s \in Opt(StockInputs), p \in Opt(Precios),
          f \in InsertFaults :
          ActualizarProducto(idp, s, p, f)
    \/ \E idp \in ProdIds, s \in Opt(StockInputs), p \in Opt(Precios),
          i \in Imagenes, f \in InsertFaults :
          ActualizarProductoConImagen(idp, s, p, i, f)
    \/ \E idp \in ProdIds, c \in Cantidades, f \in Faults :
          RegistrarVenta(idp, c, f)
    \/ \E idp \in ProdIds, c \in Cantidades, k \in Precios, f \in Faults :
          RegistrarCompra(idp, c, k, f)

Spec == Init /\ [][Next]_vars

(***************************************************************************)
(* utils/helpers.py: the current period                                    *)
(***************************************************************************)
MesDe(t) == ((t - 1) \div DiasPorMes) + 1

\* fecha.replace(day=1, hour=0, ...)
ObtenerPrimerDiaMes(t) == (MesDe(t) - 1) * DiasPorMes + 1

\* first day of the next month minus one day, at 23:59:59
ObtenerUltimoDiaMes(t) == MesDe(t) * DiasPorMes

(***************************************************************************)
(* Aggregates of the database (from the written specification)            *)
(***************************************************************************)
EnRango(rows, fi, ff) == SelectSeq(rows, LAMBDA r : fi <= r.fecha /\ r.fecha <= ff)

DeTipo(rows, tipo) == SelectSeq(rows, LAMBDA r : r.tipo = tipo)

RECURSIVE SumaTotal(_)
SumaTotal(rows) ==
    IF rows = <<>> THEN 0 ELSE Head(rows).total + SumaTotal(Tail(rows))

RECURSIVE SumaMonto(_)
SumaMonto(rows) ==
    IF rows = <<>> THEN 0 ELSE Head(rows).monto + SumaMonto(Tail(rows))

RECURSIVE SumaCantidad(_)
SumaCantidad(rows) ==
    IF rows = <<>> THEN 0 ELSE Head(rows).cantidad + SumaCantidad(Tail(rows))

DeProducto(rows, idp) == SelectSeq(rows, LAMBDA r : r.id_producto = idp)

ProductosVendidos(rows) == {rows[i].id_producto : i \in DOMAIN rows}

\* The product sold most; equal quantities in the order of the product rows
MasVendido(rows, S) ==
    CHOOSE p \in S : \A q \in S :
        \/ SumaCantidad(DeProducto(rows, p)) > SumaCantidad(DeProducto(rows, q))
        \/ /\ SumaCantidad(DeProducto(rows, p)) = SumaCantidad(DeProducto(rows, q))
           /\ p <= q

\* GROUP BY product, ORDER BY total_vendido DESC (routes/reportes.py)
RECURSIVE Ranking(_, _)
Ranking(rows, S) ==
    IF S = {} THEN <<>>
    ELSE LET p == MasVendido(rows, S)
         IN <<[id_producto |-> p,
               total_vendido |-> SumaCantidad(DeProducto(rows, p)),
               ingresos_generados |-> SumaTotal(DeProducto(rows, p))]>>
            \o Ranking(rows, S \ {p})

Limit(seq, n) == SubSeq(seq, 1, IF Len(seq) < n THEN Len(seq) ELSE n)

TopProductos(rows) == Limit(Ranking(rows, ProductosVendidos(rows)), TopLimit)

\* net profit = sales - purchases + manual gains - manual investment - manual expense
GananciaNeta(tv, tc, gan, inv, gas) == tv - tc + gan - inv - gas

\* The figures of the range [fi, ff]
Figuras(d, fi, ff) ==
    LET v == EnRango(d.ventas, fi, ff)
        c == EnRango(d.compras, fi, ff)
        r == EnRango(d.registros, fi, ff)
        tv == SumaTotal(v)
        tc == SumaTotal(c)
        inv == SumaMonto(DeTipo(r, "inversion"))
        gas == SumaMonto(DeTipo(r, "gasto"))
        gan == SumaMonto(DeTipo(r, "ganancia"))
    IN [total_ventas |-> tv, total_compras |-> tc,
        total_inversion_manual |-> inv, total_gastos_manual |-> gas,
        ganancia_manual |-> gan,
        ganancia_neta |-> GananciaNeta(tv, tc, gan, inv, gas),
        top_productos |-> TopProductos(v),
        cantidad_productos_vendidos |-> Cardinality(ProductosVendidos(v)),
        cantidad_productos_registrados |-> Len(d.productos)]

\* The row cerrar_periodo_mensual(anio, mes, fecha_inicio, fecha_fin, notas) inserts
Snapshot(d, mes, fi, ff, t) ==
    LET f == Figuras(d, fi, ff)
    IN [mes |-> mes, fecha_inicio |-> fi, fecha_fin |-> ff,
        total_ventas |-> f.total_ventas, total_compras |-> f.total_compras,
        total_inversion_manual |-> f.total_inversion_manual,
        total_gastos_manual |-> f.total_gastos_manual,
        ganancia_neta |-> f.ganancia_neta,
        top_productos |-> f.top_productos,
        cantidad_productos_vendidos |-> f.cantidad_productos_vendidos,
        cantidad_productos_registrados |-> f.cantidad_productos_registrados]

ExistePeriodo(d, mes) == \E i \in DOMAIN d.periodos : d.periodos[i].mes = mes

\* The stored procedure; (anio, mes) is a unique pair of periodos_mensuales
ProcCerrarPeriodoMensual(d, mes, fi, ff, t) ==
    IF ExistePeriodo(d, mes)
    THEN [err |-> "unique_violation", db |-> d]
    ELSE [err |-> "none",
          db |-> [d EXCEPT !.periodos = Append(@, Snapshot(d, mes, fi, ff, t))]]

\* vista_ganancia_periodo_actual and vista_top_productos_periodo: the rows
\* from the first day of the current month on
VistaPeriodoActual(d, t) == Figuras(d, ObtenerPrimerDiaMes(t), ObtenerUltimoDiaMes(t))

(***************************************************************************)
(* routes/periodos.py                                                      *)
(***************************************************************************)
\* SELECT id_periodo FROM periodos_mensuales WHERE anio = %s AND mes = %s
PeriodoYaCerrado(d, mes) ==
    \E i \in DOMAIN d.periodos : d.periodos[i].mes = mes

CerrarCheck_SinVerificar(r, mes, fi, ff, fault) ==
    /\ req[r].pc = "idle"
    /\ UNCHANGED <<archivos, db, now, pool, conn, tx>>
    /\ IF fault = "db_error"
       THEN /\ resp' = ReplyTo("cerrar_periodo_mensual", 500, fault, [mes |-> mes])
            /\ req' = req
       ELSE /\ resp' = resp
            /\ req' = [req EXCEPT ![r] = [pc |-> "checked", mes |-> mes,
                                          fi |-> fi, ff |-> ff]]

\* POST /periodos/cerrar, first part: the existence check (its own connection)
CerrarCheck(r, mes, fi, ff, fault) ==
    /\ req[r].pc = "idle"
    /\ UNCHANGED <<archivos, db, now, pool, conn, tx>>
    /\ IF fault = "db_error"
       THEN /\ resp' = ReplyTo("cerrar_periodo_mensual", 500, fault, [mes |-> mes])
            /\ req' = req
       ELSE IF PeriodoYaCerrado(db, mes)
       THEN /\ resp' = ReplyTo("cerrar_periodo_mensual", 400, fault, [mes |-> mes])
            /\ req' = req
       ELSE /\ resp' = resp
            /\ req' = [req EXCEPT ![r] = [pc |-> "checked", mes |-> mes,
                                          fi |-> fi, ff |-> ff]]

CerrarProc_Reemplaza(r, fault) ==
    /\ req[r].pc = "checked"
    /\ UNCHANGED <<archivos, now, pool, conn, tx>>
    /\ LET sin == [db EXCEPT !.periodos =
                      SelectSeq(@, LAMBDA s : s.mes # req[r].mes)]
           p == ProcCerrarPeriodoMensual(sin, req[r].mes, req[r].fi, req[r].ff, now)
           work == IF fault = "db_error" THEN db ELSE p.db
           msg == ScopeError(fault, p.err)
       IN /\ db' = GetDbCursorExit(db, work, msg # "none", TRUE)
          /\ resp' = ReplyTo("cerrar_periodo_mensual",
                             IF msg = "none" THEN 201 ELSE 500, fault,
                             [mes |-> req[r].mes])
    /\ req' = [req EXCEPT ![r] = ReqIdle]

\* POST /periodos/cerrar, second part: the procedure and the read-back in one scope
CerrarProc(r, fault) ==
    /\ req[r].pc = "checked"
    /\ UNCHANGED <<archivos, now, pool, conn, tx>>
    /\ LET p == ProcCerrarPeriodoMensual(db, req[r].mes, req[r].fi, req[r].ff, now)
           work == IF fault = "db_error" THEN db ELSE p.db
           msg == ScopeError(fault, p.err)
       IN /\ db' = GetDbCursorExit(db, work, msg # "none", TRUE)
          /\ resp' = ReplyTo("cerrar_periodo_mensual",
                             IF msg = "none" THEN 201 ELSE 500, fault,
                             [mes |-> req[r].mes])
    /\ req' = [req EXCEPT ![r] = ReqIdle]

\* The record generar_excel_periodo_actual hands to the report generator
PeriodoData(d, t) ==
    LET g == VistaPeriodoActual(d, t)
        fecha_inicio == ObtenerPrimerDiaMes(t)
        fecha_fin == ObtenerUltimoDiaMes(t)
    IN [mes |-> MesDe(fecha_inicio),
        fecha_inicio |-> fecha_inicio, fecha_fin |-> fecha_fin,
        total_ventas |-> g.total_ventas, total_compras |-> g.total_compras,
        total_inversion_manual |-> g.total_inversion_manual,
        total_gastos_manual |-> g.total_gastos_manual,
        ganancia_manual |-> g.ganancia_manual,
        ganancia_neta |-> g.ganancia_neta,
        top_productos |-> g.top_productos,
        cantidad_productos_vendidos |-> Len(g.top_productos),
        cantidad_productos_registrados |-> 0]

\* GET /periodos/periodo-actual/excel
GenerarExcelPeriodoActual(fault) ==
    /\ UNCHANGED <<archivos, db, now, req, pool, conn, tx>>
    /\ resp' = IF fault = "db_error"
               THEN Reply("generar_excel_periodo_actual", 500, fault)
               ELSE [Reply("generar_excel_periodo_actual", 200, fault)
                        EXCEPT !.data = PeriodoData(db, now)]

(***************************************************************************)
(* routes/financiero.py                                                    *)
(***************************************************************************)
Tipos == {"inversion", "gasto", "ganancia", "ajuste"}

\* POST /financiero/
CrearRegistroFinanciero(tipo, monto, fault) ==
    /\ db.regSeq < MaxRegistros
    /\ UNCHANGED <<archivos, now, req, pool, conn, tx>>
    /\ LET work == IF fault = "db_error" THEN db
                   ELSE [db EXCEPT
                           !.regSeq = @ + 1,
                           !.registros = Append(@,
                               [id_registro |-> db.regSeq + 1, tipo |-> tipo,
                                monto |-> monto, fecha |-> now])]
       IN /\ db' = GetDbCursorExit(db, work, fault # "none", TRUE)
          /\ resp' = Reply("crear_registro_financiero",
                           IF fault = "none" THEN 201 ELSE 500, fault)

\* DELETE /financiero/{id_registro}
EliminarRegistroFinanciero(id, fault) ==
    /\ UNCHANGED <<archivos, now, req, pool, conn, tx>>
    /\ LET found == \E i \in DOMAIN db.registros : db.registros[i].id_registro = id
           exc == IF fault = "db_error" THEN "db_error"
                  ELSE IF ~found THEN "HTTP404"
                  ELSE "none"
           work == IF exc = "none"
                   THEN [db EXCEPT !.registros =
                           SelectSeq(@, LAMBDA r : r.id_registro # id)]
                   ELSE db
       IN /\ db' = GetDbCursorExit(db, work, exc # "none", TRUE)
          /\ resp' = ReplyTo("eliminar_registro_financiero",
                             IF exc = "none" THEN 200
                             ELSE HandlerStatus(exc, ClausulasEliminarRegistro),
                             fault, [id |-> id, scopes |-> 1])

\* The clock
Tick ==
    /\ now < MaxT
    /\ now' = now + 1
    /\ UNCHANGED <<archivos, db, req, resp, pool, conn, tx>>

(***************************************************************************)
(* The service over the ledger, the manual entries and the period close   *)
(***************************************************************************)
\* The ranges the close requests of the model ask for
Rangos == {<<1, MaxT>>, <<2, MaxT>>}

NextPeriodo ==
    \/ \E p \in Precios : CrearProducto(MaxStock, p, "none")
    \/ \E idp \in ProdIds : RegistrarVenta(idp, 1, "none")
    \/ \E idp \in ProdIds, k \in Precios : RegistrarCompra(idp, 1, k, "none")
    \/ \E m \in Montos : CrearRegistroFinanciero("gasto", m, "none")
    \/ \E id \in 1..MaxRegistros : EliminarRegistroFinanciero(id, "none")
    \/ \E r \in Reqs, m \in Meses, rg \in Rangos, f \in InsertFaults :
          CerrarCheck(r, m, rg[1], rg[2], f)
    \/ \E r \in Reqs, f \in Faults : CerrarProc(r, f)

SpecPeriodo == InitPeriodo /\ [][NextPeriodo]_vars

(***************************************************************************)
(* The service over the ledger and the live report of the current period  *)
(***************************************************************************)
NextVista ==
    \/ \E p \in Precios : CrearProducto(MaxStock, p, "none")
    \/ \E idp \in ProdIds, c \in 1..MaxStock : RegistrarVenta(idp, c, "none")
    \/ \E idp \in ProdIds, k \in Precios : RegistrarCompra(idp, 1, k, "none")
    \/ \E tp \in Tipos, m \in Montos : CrearRegistroFinanciero(tp, m, "none")
    \/ \E id \in 1..MaxRegistros : EliminarRegistroFinanciero(id, "none")
    \/ \E f \in InsertFaults : GenerarExcelPeriodoActual(f)
    \/ Tick

SpecVista == Init /\ [][NextVista]_vars

(***************************************************************************)
(* config/database.py: the pool, the connection and the cursor scope, one *)
(* step per call that can fail                                             *)
(***************************************************************************)
\* connection_pool.getconn() of SimpleConnectionPool(1, 10), first half: the
\* limit test, PoolError("connection pool exhausted") when maxconn are in use
PoolHasRoom(u) == u < MaxConn

\* connection_pool.getconn(), second half: the connection enters the used set
PoolGetconn(u) == u + 1

\* release_db_connection: connection_pool.putconn(conn)
ReleaseDbConnection(u) == u - 1

ScopeOps == {"cursor_commit", "cursor_read"}
PoolOps == ScopeOps \cup {"query_dict", "health_check"}

Finished(op, kind) ==
    [ConnIdle EXCEPT !.op = op, !.result = [NoResult EXCEPT !.kind = kind]]

HealthStatus_Interno(conectado) == IF conectado THEN 200 ELSE 500

\* health_check: return {"status": "healthy", ...} /
\* except Exception: raise HTTPException(status_code=503, ...)
HealthStatus(conectado) == IF conectado THEN 200 ELSE 503

HealthReply(conectado) ==
    ReplyTo("health_check", HealthStatus(conectado), "none",
            [healthy |-> conectado])

\* get_db_connection up to the limit test of getconn. SimpleConnectionPool
\* takes no lock and the handlers run on worker threads, so another thread's
\* getconn or putconn can run between this step and the next
GetDbConnectionBegin(p, op) ==
    /\ conn[p].pc = "idle"
    /\ tx < MaxCommits
    /\ UNCHANGED <<archivos, db, now, req, tx>>
    /\ pool' = [pool EXCEPT !.created = TRUE]
    /\ conn' = [conn EXCEPT ![p] =
                  IF PoolHasRoom(pool.used)
                  THEN [ConnIdle EXCEPT !.pc = "getconn", !.op = op]
                  ELSE Finished(op, "pool_exhausted")]
    /\ resp' = IF op = "health_check" /\ ~PoolHasRoom(pool.used)
               THEN HealthReply(FALSE)
               ELSE resp

\* get_db_connection from the hand-out of the connection: then
\* set_client_encoding / SET CLIENT_ENCODING / commit; any failure is re-raised
GetDbConnection(p, fails) ==
    /\ conn[p].pc = "getconn"
    /\ UNCHANGED <<archivos, db, now, req, tx>>
    /\ pool' = [pool EXCEPT !.used = PoolGetconn(@)]
    /\ conn' = [conn EXCEPT ![p] =
                  IF fails THEN Finished(conn[p].op, "conn_error")
                  ELSE [@ EXCEPT !.pc = "connected"]]
    /\ resp' = IF conn[p].op = "health_check" /\ fails
               THEN HealthReply(FALSE)
               ELSE resp

\* get_db_cursor: cursor = conn.cursor(), before the try
CreateCursor(p, fails) ==
    /\ conn[p].pc = "connected"
    /\ conn[p].op \in ScopeOps
    /\ UNCHANGED <<archivos, db, now, req, resp, tx, pool>>
    /\ conn' = [conn EXCEPT ![p] =
                  IF fails THEN Finished(conn[p].op, "cursor_error")
                  ELSE [@ EXCEPT !.pc = "body"]]

\* The body of a with get_db_cursor(...) block: a statement that succeeds, a
\* statement that fails, or a raise (HTTPException, TypeError) after a statement
BodyOutcomes == {"ok", "db_error", "raise_after_write"}

Body(p, outcome) ==
    /\ conn[p].pc = "body"
    /\ UNCHANGED <<archivos, db, now, req, resp, tx, pool>>
    /\ conn' = [conn EXCEPT ![p] =
                  [@ EXCEPT !.pc = "exit",
                            !.wrote = IF outcome = "db_error" THEN 0 ELSE 1,
                            !.raised = outcome # "ok"]]

\* get_db_cursor after the yield: commit or rollback, then the finally block
ExitScope(p, commitFails) ==
    /\ conn[p].pc = "exit"
    /\ UNCHANGED <<archivos, db, now, req, resp>>
    /\ LET commit == conn[p].op = "cursor_commit"
           commitCalled == commit /\ ~conn[p].raised
           raised == conn[p].raised \/ (commitCalled /\ commitFails)
           after == GetDbCursorExit(tx, tx + conn[p].wrote, raised, commit)
       IN /\ tx' = after
          /\ pool' = [pool EXCEPT !.used = ReleaseDbConnection(@)]
          /\ conn' = [conn EXCEPT ![p] =
                        [ConnIdle EXCEPT
                           !.op = conn[p].op,
                           !.wrote = conn[p].wrote,
                           !.result =
                              [kind |-> "scope",
                               bodyRaised |-> conn[p].raised,
                               raised |-> raised,
                               commitCalled |-> commitCalled,
                               rollbackCalled |-> raised,
                               committed |-> after - tx]]]

\* execute_query_dict: cursor, execute and fetch inside try, release in finally
ExecuteQueryDict(p, fails) ==
    /\ conn[p].pc = "connected"
    /\ conn[p].op = "query_dict"
    /\ UNCHANGED <<archivos, db, now, req, resp, tx>>
    /\ pool' = [pool EXCEPT !.used = ReleaseDbConnection(@)]
    /\ conn' = [conn EXCEPT ![p] =
                  Finished("query_dict", IF fails THEN "query_error" ELSE "ok")]

\* main.py health_check: conn = get_db_connection(); conn.close(); return
HealthCheck(p) ==
    /\ conn[p].pc = "connected"
    /\ conn[p].op = "health_check"
    /\ UNCHANGED <<archivos, db, now, req, tx, pool>>
    /\ conn' = [conn EXCEPT ![p] = Finished("health_check", "ok")]
    /\ resp' = HealthReply(TRUE)

NextPool ==
    \/ \E p \in Procs, op \in PoolOps : GetDbConnectionBegin(p, op)
    \/ \E p \in Procs, f \in BOOLEAN : GetDbConnection(p, f)
    \/ \E p \in Procs, f \in BOOLEAN : CreateCursor(p, f)
    \/ \E p \in Procs, o \in BodyOutcomes : Body(p, o)
    \/ \E p \in Procs, f \in BOOLEAN : ExitScope(p, f)
    \/ \E p \in Procs, f \in BOOLEAN : ExecuteQueryDict(p, f)
    \/ \E p \in Procs : HealthCheck(p)

SpecPool == InitPool /\ [][NextPool]_vars

\* GET /health requests alone, each obtaining its connection
NextSalud ==
    \/ \E p \in Procs : GetDbConnectionBegin(p, "health_check")
    \/ \E p \in Procs : GetDbConnection(p, FALSE)
    \/ \E p \in Procs : HealthCheck(p)

SpecSalud == InitPool /\ [][NextSalud]_vars

(***************************************************************************)
(* The catalogue: routes/categorias.py and routes/productos.py over the   *)
(* full rows, with the handlers that use more than one connection split   *)
(* into the steps other requests can interleave with                      *)
(***************************************************************************)
MaxCat == 2
MaxNombre == 2
MaxCodigo == 1
MaxArchivos == 1

CatIds == 1..MaxCat
Nombres == 1..MaxNombre
Codigos == 1..MaxCodigo

Val(S) == CHOOSE v \in S : TRUE

\* Empty tables, with the category table and the product id sequence
EmptyCatalogo ==
    [categorias |-> <<>>, productos |-> <<>>, prodSeq |-> 0,
     ventas |-> <<>>, compras |-> <<>>, registros |-> <<>>, regSeq |-> 0]

NoCampos == [none |-> TRUE]

CatIdle == [pc |-> "idle", op |-> "none", id |-> 0, campos |-> NoCampos,
            scopes |-> 0]

InitCatalogo ==
    /\ db = EmptyCatalogo
    /\ now = 1
    /\ req = [r \in Reqs |-> CatIdle]
    /\ resp = NoResp
    /\ pool = [created |-> FALSE, used |-> 0]
    /\ conn = <<>>
    /\ tx = 0
    /\ archivos = NoArchivos

\* UNIQUE (nombre) on categorias
NombreEnUso(d, nombre, salvo) ==
    \E i \in DOMAIN d.categorias :
        i # salvo /\ d.categorias[i].nombre = nombre

\* INSERT INTO categorias (nombre, descripcion, activo) VALUES (...)
InsertCategoria(d, nombre, activo) ==
    [d EXCEPT !.categorias = Append(@, [nombre |-> nombre, activo |-> activo])]

\* POST /categorias/
CrearCategoria(nombre, activo, fault) ==
    /\ Len(db.categorias) < MaxCat
    /\ UNCHANGED <<archivos, now, req, pool, conn, tx>>
    /\ LET exc == IF fault = "db_error" THEN "db_error"
                  ELSE IF NombreEnUso(db, nombre, 0) THEN "UniqueViolation"
                  ELSE "none"
           work == IF exc = "none" THEN InsertCategoria(db, nombre, activo)
                   ELSE db
       IN /\ db' = GetDbCursorExit(db, work, exc # "none", TRUE)
          /\ resp' = ReplyTo("crear_categoria",
                             IF exc = "none" THEN 201
                             ELSE HandlerStatus(exc, ClausulasCrearCategoria),
                             fault,
                             [id |-> 0, scopes |-> 1,
                              duplicado |-> NombreEnUso(db, nombre, 0)])

UpdateCategoria_ActivoPorDefecto(d, id, campos) ==
    [d EXCEPT !.categorias[id] =
        [nombre |-> IF campos.nombre = {} THEN @.nombre ELSE Val(campos.nombre),
         activo |-> IF campos.activo = {} THEN TRUE ELSE Val(campos.activo)]]

\* UPDATE categorias SET <the supplied fields> WHERE id_categoria = id
UpdateCategoria(d, id, campos) ==
    [d EXCEPT !.categorias[id] =
        [nombre |-> IF campos.nombre = {} THEN @.nombre ELSE Val(campos.nombre),
         activo |-> IF campos.activo = {} THEN @.activo ELSE Val(campos.activo)]]

\* PUT /categorias/{id_categoria}, first part: the existence check through
\* execute_query_dict (its own connection) and the list of supplied fields
ActualizarCategoriaCheck(r, id, campos, fault) ==
    /\ req[r].pc = "idle"
    /\ UNCHANGED <<archivos, db, now, pool, conn, tx>>
    /\ IF fault = "db_error"
       THEN /\ req' = req
            /\ resp' = ReplyTo("actualizar_categoria", 500, fault,
                               [id |-> id, scopes |-> 1, campos |-> campos])
       ELSE IF id \notin DOMAIN db.categorias
       THEN /\ req' = req
            /\ resp' = ReplyTo("actualizar_categoria",
                               HandlerStatus("HTTP404", ClausulasActualizarCategoria),
                               fault,
                               [id |-> id, scopes |-> 1, campos |-> campos])
       ELSE IF campos.nombre = {} /\ campos.activo = {}
       THEN /\ req' = req
            /\ resp' = ReplyTo("actualizar_categoria", 200, fault,
                               [id |-> id, scopes |-> 1, campos |-> campos,
                                registro |-> db.categorias[id]])
       ELSE /\ resp' = resp
            /\ req' = [req EXCEPT ![r] =
                         [pc |-> "checked", op |-> "actualizar_categoria",
                          id |-> id, campos |-> campos, scopes |-> 1]]

\* PUT /categorias/{id_categoria}, second part: the UPDATE ... RETURNING scope;
\* dict(zip(columns, None)) raises TypeError when no row came back
ActualizarCategoriaUpdate(r, fault) ==
    /\ req[r].pc = "checked"
    /\ req[r].op = "actualizar_categoria"
    /\ UNCHANGED <<archivos, now, pool, conn, tx>>
    /\ LET id == req[r].id
           campos == req[r].campos
           exc == IF fault = "db_error" THEN "db_error"
                  ELSE IF id \notin DOMAIN db.categorias THEN "TypeError"
                  ELSE IF campos.nombre # {}
                          /\ NombreEnUso(db, Val(campos.nombre), id)
                  THEN "UniqueViolation"
                  ELSE "none"
           work == IF exc = "none" THEN UpdateCategoria(db, id, campos) ELSE db
       IN /\ db' = GetDbCursorExit(db, work, exc # "none", TRUE)
          /\ resp' = ReplyTo("actualizar_categoria",
                             IF exc = "none" THEN 200
                             ELSE HandlerStatus(exc, ClausulasActualizarCategoria),
                             fault,
                             [id |-> id, scopes |-> req[r].scopes + 1,
                              campos |-> campos])
    /\ req' = [req EXCEPT ![r] = CatIdle]

EliminarCategoria_BorraFila(id, fault) ==
    /\ UNCHANGED <<archivos, now, req, pool, conn, tx>>
    /\ LET existe == id \in DOMAIN db.categorias
           exc == IF fault = "db_error" THEN "db_error"
                  ELSE IF ~existe THEN "HTTP404"
                  ELSE "none"
           work == IF exc = "none"
                   THEN [db EXCEPT !.categorias =
                           SubSeq(@, 1, id - 1) \o SubSeq(@, id + 1, Len(@))]
                   ELSE db
       IN /\ db' = GetDbCursorExit(db, work, exc # "none", TRUE)
          /\ resp' = ReplyTo("eliminar_categoria",
                             IF exc = "none" THEN 200
                             ELSE HandlerStatus(exc, ClausulasEliminarCategoria),
                             fault,
                             [id |-> id, scopes |-> 1,
                              antes |-> IF existe THEN {db.categorias[id]}
                                        ELSE {}])

\* DELETE /categorias/{id_categoria}: UPDATE categorias SET activo = FALSE
EliminarCategoria(id, fault) ==
    /\ UNCHANGED <<archivos, now, req, pool, conn, tx>>
    /\ LET existe == id \in DOMAIN db.categorias
           exc == IF fault = "db_error" THEN "db_error"
                  ELSE IF ~existe THEN "HTTP404"
                  ELSE "none"
           work == IF exc = "none"
                   THEN [db EXCEPT !.categorias[id].activo = FALSE]
                   ELSE db
       IN /\ db' = GetDbCursorExit(db, work, exc # "none", TRUE)
          /\ resp' = ReplyTo("eliminar_categoria",
                             IF exc = "none" THEN 200
                             ELSE HandlerStatus(exc, ClausulasEliminarCategoria),
                             fault,
                             [id |-> id, scopes |-> 1,
                              antes |-> IF existe THEN {db.categorias[id]}
                                        ELSE {}])

\* UNIQUE (codigo_barras) on productos; NULL never conflicts
CodigoEnUso(d, codigo, salvo) ==
    /\ codigo # {}
    /\ \E i \in DOMAIN d.productos :
          i # salvo /\ d.productos[i].codigo_barras = codigo

\* The row of INSERT INTO productos (codigo_barras, ..., stock, imagen_url, activo)
ProductoFila(codigo, stock, imagen_url) ==
    [codigo_barras |-> codigo, stock |-> stock, precio_venta |-> MaxPrecio,
     imagen_url |-> imagen_url, activo |-> TRUE]

InsertProductoFila(d, fila) ==
    [d EXCEPT !.prodSeq = @ + 1,
              !.productos = ((d.prodSeq + 1) :> fila) @@ @]

\* generar_nombre_archivo + guardar_archivo_local: a new file under a new name
GuardarArchivoLocal(a) == [seq |-> a.seq + 1, files |-> a.files \cup {a.seq + 1}]

\* eliminar_archivo_local: os.remove when the path exists
EliminarArchivoLocal(a, url) == [a EXCEPT !.files = @ \ url]

\* POST /productos/ over the full row
CatCrearProducto(codigo, stock, fault) ==
    /\ db.prodSeq < MaxProd
    /\ UNCHANGED <<archivos, now, req, pool, conn, tx>>
    /\ LET exc == IF fault = "db_error" THEN "db_error"
                  ELSE IF CodigoEnUso(db, codigo, 0) THEN "UniqueViolation"
                  ELSE "none"
           work == IF exc = "none"
                   THEN InsertProductoFila(db, ProductoFila(codigo, stock, {}))
                   ELSE db
       IN /\ db' = GetDbCursorExit(db, work, exc # "none", TRUE)
          /\ resp' = ReplyTo("crear_producto",
                             IF exc = "none" THEN 201
                             ELSE HandlerStatus(exc, ClausulasCrearProducto),
                             fault,
                             [id |-> 0, scopes |-> 1,
                              duplicado |-> CodigoEnUso(db, codigo, 0)])

\* POST /productos/con-imagen/ over the full row: the file is saved before the
\* INSERT scope is entered
CatCrearProductoConImagen(codigo, stock, imagen, fault) ==
    /\ db.prodSeq < MaxProd
    /\ imagen = "valid" => archivos.seq < MaxArchivos
    /\ UNCHANGED <<now, req, pool, conn, tx>>
    /\ IF imagen = "invalid"
       THEN /\ db' = db
            /\ archivos' = archivos
            /\ resp' = ReplyTo("crear_producto_con_imagen",
                               HandlerStatus("HTTP400",
                                             ClausulasCrearProductoConImagen),
                               "none",
                               [id |-> 0, scopes |-> 0, duplicado |-> FALSE])
       ELSE LET guardado == IF imagen = "valid"
                            THEN GuardarArchivoLocal(archivos) ELSE archivos
                url == IF imagen = "valid" THEN {guardado.seq} ELSE {}
                exc == IF fault = "db_error" THEN "db_error"
                       ELSE IF CodigoEnUso(db, codigo, 0) THEN "UniqueViolation"
                       ELSE "none"
                work == IF exc = "none"
                        THEN InsertProductoFila(db, ProductoFila(codigo, stock, url))
                        ELSE db
            IN /\ archivos' = guardado
               /\ db' = GetDbCursorExit(db, work, exc # "none", TRUE)
               /\ resp' = ReplyTo("crear_producto_con_imagen",
                                  IF exc = "none" THEN 201
                                  ELSE HandlerStatus(exc,
                                          ClausulasCrearProductoConImagen),
                                  fault,
                                  [id |-> 0, scopes |-> 1,
                                   duplicado |-> CodigoEnUso(db, codigo, 0)])

\* UPDATE productos SET <the supplied fields> WHERE id_producto = id
UpdateProductoFila(d, id, campos) ==
    [d EXCEPT !.productos[id] =
        [codigo_barras |-> IF campos.codigo_barras = {} THEN @.codigo_barras
                           ELSE campos.codigo_barras,
         stock |-> IF campos.stock = {} THEN @.stock ELSE Val(campos.stock),
         precio_venta |-> @.precio_venta,
         imagen_url |-> IF campos.imagen_url = {} THEN @.imagen_url
                        ELSE campos.imagen_url,
         activo |-> IF campos.activo = {} THEN @.activo ELSE Val(campos.activo)]]

SinCampos(campos) ==
    /\ campos.codigo_barras = {}
    /\ campos.stock = {}
    /\ campos.imagen_url = {}
    /\ campos.activo = {}

\* PUT /productos/{id_producto}, first part: the existence check through
\* execute_query_dict (its own connection) and the list of supplied fields
ActualizarProductoCheck(r, id, campos, fault) ==
    /\ req[r].pc = "idle"
    /\ UNCHANGED <<archivos, db, now, pool, conn, tx>>
    /\ IF fault = "db_error"
       THEN /\ req' = req
            /\ resp' = ReplyTo("actualizar_producto", 500, fault,
                               [id |-> id, scopes |-> 1, campos |-> campos])
       ELSE IF id \notin DOMAIN db.productos
       THEN /\ req' = req
            /\ resp' = ReplyTo("actualizar_producto",
                               HandlerStatus("HTTP404", ClausulasActualizarProducto),
                               fault,
                               [id |-> id, scopes |-> 1, campos |-> campos])
       ELSE IF SinCampos(campos)
       THEN /\ req' = req
            /\ resp' = ReplyTo("actualizar_producto", 200, fault,
                               [id |-> id, scopes |-> 1, campos |-> campos,
                                registro |-> db.productos[id]])
       ELSE /\ resp' = resp
            /\ req' = [req EXCEPT ![r] =
                         [pc |-> "checked", op |-> "actualizar_producto",
                          id |-> id, campos |-> campos, scopes |-> 1]]

\* PUT /productos/con-imagen/{id_producto}, first part: the existence check,
\* then the old file removed and the new one saved, then the supplied fields
ActualizarProductoConImagenCheck(r, id, campos, imagen, fault) ==
    /\ req[r].pc = "idle"
    /\ imagen = "valid" => archivos.seq < MaxArchivos
    /\ UNCHANGED <<db, now, pool, conn, tx>>
    /\ IF fault = "db_error"
       THEN /\ req' = req
            /\ archivos' = archivos
            /\ resp' = ReplyTo("actualizar_producto_con_imagen", 500, fault,
                               [id |-> id, scopes |-> 1, campos |-> campos])
       ELSE IF id \notin DOMAIN db.productos
       THEN /\ req' = req
            /\ archivos' = archivos
            /\ resp' = ReplyTo("actualizar_producto_con_imagen",
                               HandlerStatus("HTTP404", ClausulasActualizarProducto),
                               fault,
                               [id |-> id, scopes |-> 1, campos |-> campos])
       ELSE IF imagen = "invalid"
       THEN /\ req' = req
            /\ archivos' = archivos
            /\ resp' = ReplyTo("actualizar_producto_con_imagen",
                               HandlerStatus("HTTP400", ClausulasActualizarProducto),
                               fault,
                               [id |-> id, scopes |-> 1, campos |-> campos])
       ELSE LET guardado ==
                   IF imagen = "valid"
                   THEN GuardarArchivoLocal(
                           EliminarArchivoLocal(archivos,
                                                db.productos[id].imagen_url))
                   ELSE archivos
                con == IF imagen = "valid"
                       THEN [campos EXCEPT !.imagen_url = {guardado.seq}]
                       ELSE campos
            IN /\ archivos' = guardado
               /\ IF SinCampos(con)
                  THEN /\ req' = req
                       /\ resp' = ReplyTo("actualizar_producto_con_imagen", 200,
                                          fault,
                                          [id |-> id, scopes |-> 1,
                                           campos |-> con,
                                           registro |-> db.productos[id]])
                  ELSE /\ resp' = resp
                       /\ req' = [req EXCEPT ![r] =
                                    [pc |-> "checked",
                                     op |-> "actualizar_producto_con_imagen",
                                     id |-> id, campos |-> con, scopes |-> 1]]

\* Second part of both product updates: the UPDATE ... RETURNING * scope;
\* dict(zip(columns, None)) raises TypeError when no row came back
ActualizarProductoUpdate(r, fault) ==
    /\ req[r].pc = "checked"
    /\ req[r].op \in {"actualizar_producto", "actualizar_producto_con_imagen"}
    /\ UNCHANGED <<archivos, now, pool, conn, tx>>
    /\ LET id == req[r].id
           campos == req[r].campos
           exc == IF fault = "db_error" THEN "db_error"
                  ELSE IF id \notin DOMAIN db.productos THEN "TypeError"
                  ELSE IF CodigoEnUso(db, campos.codigo_barras, id)
                  THEN "UniqueViolation"
                  ELSE "none"
           work == IF exc = "none" THEN UpdateProductoFila(db, id, campos)
                   ELSE db
       IN /\ db' = GetDbCursorExit(db, work, exc # "none", TRUE)
          /\ resp' = ReplyTo(req[r].op,
                             IF exc = "none" THEN 200
                             ELSE HandlerStatus(exc, ClausulasActualizarProducto),
                             fault,
                             [id |-> id, scopes |-> req[r].scopes + 1,
                              campos |-> campos])
    /\ req' = [req EXCEPT ![r] = CatIdle]

\* (SELECT COUNT(*) FROM ventas WHERE id_producto = id) > 0 or the same of compras
Referenciado(d, id) ==
    \/ \E i \in DOMAIN d.ventas : d.ventas[i].id_producto = id
    \/ \E i \in DOMAIN d.compras : d.compras[i].id_producto = id

DeleteProducto(d, id) ==
    [d EXCEPT !.productos = [i \in DOMAIN @ \ {id} |-> @[i]]]

\* DELETE /productos/{id_producto}: UPDATE productos SET activo = FALSE
EliminarProductoLogico(id, fault) ==
    /\ UNCHANGED <<archivos, now, req, pool, conn, tx>>
    /\ LET exc == IF fault = "db_error" THEN "db_error"
                  ELSE IF id \notin DOMAIN db.productos THEN "HTTP404"
                  ELSE "none"
           work == IF exc = "none"
                   THEN [db EXCEPT !.productos[id].activo = FALSE]
                   ELSE db
       IN /\ db' = GetDbCursorExit(db, work, exc # "none", TRUE)
          /\ resp' = ReplyTo("eliminar_producto",
                             IF exc = "none" THEN 200
                             ELSE HandlerStatus(exc, ClausulasEliminarProducto),
                             fault,
                             [id |-> id, scopes |-> 1, fisico |-> FALSE])

\* DELETE /productos/{id_producto}?eliminar_fisicamente=true, first scope:
\* the count of the sales and purchases of the product (no commit)
EliminarProductoContar(r, id, fault) ==
    /\ req[r].pc = "idle"
    /\ UNCHANGED <<archivos, now, pool, conn, tx>>
    /\ LET exc == IF fault = "db_error" THEN "db_error"
                  ELSE IF Referenciado(db, id) THEN "HTTP400"
                  ELSE "none"
       IN /\ db' = GetDbCursorExit(db, db, exc # "none", FALSE)
          /\ IF exc = "none"
             THEN /\ resp' = resp
                  /\ req' = [req EXCEPT ![r] =
                               [pc |-> "counted", op |-> "eliminar_producto",
                                id |-> id, campos |-> NoCampos, scopes |-> 1]]
             ELSE /\ req' = req
                  /\ resp' = ReplyTo("eliminar_producto",
                                     HandlerStatus(exc, ClausulasEliminarProducto),
                                     fault,
                                     [id |-> id, scopes |-> 1, fisico |-> TRUE])

\* Hard delete, second connection: SELECT imagen_url through
\* execute_query_dict, then eliminar_archivo_local
EliminarProductoImagen(r, fault) ==
    /\ req[r].pc = "counted"
    /\ UNCHANGED <<db, now, pool, conn, tx>>
    /\ IF fault = "db_error"
       THEN /\ archivos' = archivos
            /\ req' = [req EXCEPT ![r] = CatIdle]
            /\ resp' = ReplyTo("eliminar_producto", 500, fault,
                               [id |-> req[r].id, scopes |-> req[r].scopes + 1,
                                fisico |-> TRUE])
       ELSE /\ archivos' =
                  IF req[r].id \in DOMAIN db.productos
                  THEN EliminarArchivoLocal(archivos,
                                            db.productos[req[r].id].imagen_url)
                  ELSE archivos
            /\ resp' = resp
            /\ req' = [req EXCEPT ![r].pc = "imagen", ![r].scopes = @ + 1]

EliminarProductoDelete_BorraVentas(r, fault) ==
    /\ req[r].pc = "imagen"
    /\ UNCHANGED <<archivos, now, pool, conn, tx>>
    /\ LET id == req[r].id
           exc == IF fault = "db_error" THEN "db_error"
                  ELSE IF id \notin DOMAIN db.productos THEN "HTTP404"
                  ELSE "none"
           work == IF exc = "none"
                   THEN [DeleteProducto(db, id) EXCEPT
                           !.ventas = SelectSeq(@, LAMBDA v : v.id_producto # id),
                           !.compras = SelectSeq(@, LAMBDA c : c.id_producto # id)]
                   ELSE db
       IN /\ db' = GetDbCursorExit(db, work, exc # "none", TRUE)
          /\ resp' = ReplyTo("eliminar_producto",
                             IF exc = "none" THEN 200
                             ELSE HandlerStatus(exc, ClausulasEliminarProducto),
                             fault,
                             [id |-> id, scopes |-> req[r].scopes + 1,
                              fisico |-> TRUE])
    /\ req' = [req EXCEPT ![r] = CatIdle]

\* Hard delete, third connection: DELETE FROM productos ... RETURNING
\* id_producto; the sales and purchases reference the product row
EliminarProductoDelete(r, fault) ==
    /\ req[r].pc = "imagen"
    /\ UNCHANGED <<archivos, now, pool, conn, tx>>
    /\ LET id == req[r].id
           exc == IF fault = "db_error" THEN "db_error"
                  ELSE IF id \notin DOMAIN db.productos THEN "HTTP404"
                  ELSE IF Referenciado(db, id) THEN "ForeignKeyViolation"
                  ELSE "none"
           work == IF exc = "none" THEN DeleteProducto(db, id) ELSE db
       IN /\ db' = GetDbCursorExit(db, work, exc # "none", TRUE)
          /\ resp' = ReplyTo("eliminar_producto",
                             IF exc = "none" THEN 200
                             ELSE HandlerStatus(exc, ClausulasEliminarProducto),
                             fault,
                             [id |-> id, scopes |-> req[r].scopes + 1,
                              fisico |-> TRUE])
    /\ req' = [req EXCEPT ![r] = CatIdle]

\* The requests of the catalogue
CamposCategoria ==
    {[nombre |-> {}, activo |-> {}],
     [nombre |-> {}, activo |-> {TRUE}],
     [nombre |-> {MaxNombre}, activo |-> {}]}

CamposProducto ==
    {[codigo_barras |-> {}, stock |-> {}, imagen_url |-> {}, activo |-> {}],
     [codigo_barras |-> {}, stock |-> {0}, imagen_url |-> {}, activo |-> {}],
     [codigo_barras |-> {MaxCodigo}, stock |-> {}, imagen_url |-> {},
      activo |-> {FALSE}]}

NingunCampo == [codigo_barras |-> {}, stock |-> {}, imagen_url |-> {}, activo |-> {}]

SoloStock == [codigo_barras |-> {}, stock |-> {0}, imagen_url |-> {}, activo |-> {}]

\* routes/categorias.py
NextCategorias ==
    \/ \E n \in Nombres, a \in BOOLEAN, f \in InsertFaults : CrearCategoria(n, a, f)
    \/ \E r \in Reqs, id \in CatIds, c \in CamposCategoria, f \in InsertFaults :
          ActualizarCategoriaCheck(r, id, c, f)
    \/ \E r \in Reqs, f \in InsertFaults : ActualizarCategoriaUpdate(r, f)
    \/ \E id \in CatIds, f \in InsertFaults : EliminarCategoria(id, f)

SpecCategorias == InitCatalogo /\ [][NextCategorias]_vars

\* The product handlers that use several connections, interleaved with each
\* other and with the sales and purchases that reference products
NextCatalogo ==
    \/ CatCrearProducto({}, 1, "none")
    \/ CatCrearProductoConImagen({}, 1, "valid", "none")
    \/ \E r \in Reqs, id \in ProdIds :
          ActualizarProductoCheck(r, id, SoloStock, "none")
    \/ \E r \in Reqs, f \in InsertFaults : ActualizarProductoUpdate(r, f)
    \/ \E id \in ProdIds : EliminarProductoLogico(id, "none")
    \/ \E r \in Reqs, id \in ProdIds : EliminarProductoContar(r, id, "none")
    \/ \E r \in Reqs : EliminarProductoImagen(r, "none")
    \/ \E r \in Reqs, f \in InsertFaults : EliminarProductoDelete(r, f)
    \/ \E id \in ProdIds : RegistrarVenta(id, 1, "none")
    \/ \E id \in ProdIds : RegistrarCompra(id, 1, 1, "none")

SpecCatalogo == InitCatalogo /\ [][NextCatalogo]_vars

\* The create handlers of categories and products
NextAltas ==
    \/ \E n \in Nombres, a \in BOOLEAN, f \in InsertFaults : CrearCategoria(n, a, f)
    \/ \E c \in Opt(Codigos), s \in 0..1, f \in InsertFaults :
          CatCrearProducto(c, s, f)
    \/ \E c \in Opt(Codigos), s \in 0..1, i \in Imagenes, f \in InsertFaults :
          CatCrearProductoConImagen(c, s, i, f)

SpecAltas == InitCatalogo /\ [][NextAltas]_vars

\* The update handlers of categories and products, one category update and
\* one product update in flight at a time
NextActualizaciones ==
    \/ \E n \in Nombres, a \in BOOLEAN : CrearCategoria(n, a, "none")
    \/ \E c \in Opt(Codigos) : CatCrearProducto(c, 1, "none")
    \/ \E id \in CatIds, c \in CamposCategoria :
          ActualizarCategoriaCheck(1, id, c, "none")
    \/ \E f \in InsertFaults : ActualizarCategoriaUpdate(1, f)
    \/ \E id \in ProdIds, c \in CamposProducto :
          ActualizarProductoCheck(NumReq, id, c, "none")
    \/ \E id \in ProdIds, c \in CamposProducto :
          ActualizarProductoConImagenCheck(NumReq, id, c, "valid", "none")
    \/ \E id \in ProdIds :
          ActualizarProductoConImagenCheck(NumReq, id, NingunCampo, "none", "none")
    \/ \E f \in InsertFaults : ActualizarProductoUpdate(NumReq, f)

SpecActualizaciones == InitCatalogo /\ [][NextActualizaciones]_vars

\* The delete handlers of categories, products and financial entries, one
\* hard delete in flight at a time
NextBajas ==
    \/ \E n \in Nombres : CrearCategoria(n, TRUE, "none")
    \/ CatCrearProducto({}, 1, "none")
    \/ CatCrearProductoConImagen({}, 1, "valid", "none")
    \/ CrearRegistroFinanciero("gasto", MaxMonto, "none")
    \/ \E id \in ProdIds : RegistrarVenta(id, 1, "none")
    \/ \E id \in CatIds, f \in InsertFaults : EliminarCategoria(id, f)
    \/ \E id \in ProdIds, f \in InsertFaults : EliminarProductoLogico(id, f)
    \/ \E id \in ProdIds, f \in InsertFaults : EliminarProductoContar(1, id, f)
    \/ \E f \in InsertFaults : EliminarProductoImagen(1, f)
    \/ \E f \in InsertFaults : EliminarProductoDelete(1, f)
    \/ \E id \in 1..MaxRegistros, f \in InsertFaults :
          EliminarRegistroFinanciero(id, f)

SpecBajas == InitCatalogo /\ [][NextBajas]_vars

(***************************************************************************)
(* utils/helpers.py: calcular_totales_periodo, a function of three lists   *)
(***************************************************************************)
MaxFilas == 2
MaxImporte == 2

\* r.get(campo, 0): the value under the key, 0 when the key is absent
DictGet(r, campo) == IF campo \in DOMAIN r THEN r[campo] ELSE 0

\* sum(Decimal(str(r.get(campo, 0))) for r in rows): exact decimal addition,
\* left to right from 0
RECURSIVE SumaDecimal(_, _)
SumaDecimal(rows, campo) ==
    IF rows = <<>> THEN 0
    ELSE SumaDecimal(SubSeq(rows, 1, Len(rows) - 1), campo)
         + DictGet(rows[Len(rows)], campo)

\* ... for r in registros_financieros if r.get('tipo') == tipo
FiltroTipo(rows, tipo) ==
    SelectSeq(rows, LAMBDA r : "tipo" \in DOMAIN r /\ r.tipo = tipo)

CalcularTotalesPeriodo_AjusteComoGasto(ventas, compras, registros_financieros) ==
    LET total_ventas == SumaDecimal(ventas, "total")
        total_compras == SumaDecimal(compras, "total")
        inversion_manual ==
            SumaDecimal(FiltroTipo(registros_financieros, "inversion"), "monto")
        gastos_manual ==
            SumaDecimal(FiltroTipo(registros_financieros, "gasto"), "monto")
            + SumaDecimal(FiltroTipo(registros_financieros, "ajuste"), "monto")
        ganancia_manual ==
            SumaDecimal(FiltroTipo(registros_financieros, "ganancia"), "monto")
    IN [total_ventas |-> total_ventas,
        total_compras |-> total_compras,
        inversion_manual |-> inversion_manual,
        gastos_manual |-> gastos_manual,
        ganancia_manual |-> ganancia_manual,
        ganancia_neta |-> total_ventas - total_compras + ganancia_manual
                          - inversion_manual - gastos_manual]

CalcularTotalesPeriodo(ventas, compras, registros_financieros) ==
    LET total_ventas == SumaDecimal(ventas, "total")
        total_compras == SumaDecimal(compras, "total")
        inversion_manual ==
            SumaDecimal(FiltroTipo(registros_financieros, "inversion"), "monto")
        gastos_manual ==
            SumaDecimal(FiltroTipo(registros_financieros, "gasto"), "monto")
        ganancia_manual ==
            SumaDecimal(FiltroTipo(registros_financieros, "ganancia"), "monto")
    IN [total_ventas |-> total_ventas,
        total_compras |-> total_compras,
        inversion_manual |-> inversion_manual,
        gastos_manual |-> gastos_manual,
        ganancia_manual |-> ganancia_manual,
        ganancia_neta |-> total_ventas - total_compras + ganancia_manual
                          - inversion_manual - gastos_manual]

\* The rows handed to the function: with a total, or without the key
FilasConTotal == {[total |-> t] : t \in 1..MaxImporte} \cup {[id |-> 1]}

FilasRegistro ==
    {[tipo |-> ti, monto |-> m] : ti \in Tipos, m \in 1..MaxImporte}
    \cup {[tipo |-> "gasto"]}

SeqHasta(S, n) == UNION {[1..k -> S] : k \in 0..n}

\* The arguments are held in db, the returned dictionary in resp.data
InitTotales ==
    /\ db \in [ventas : SeqHasta(FilasConTotal, 1),
               compras : SeqHasta(FilasConTotal, 1),
               registros : SeqHasta(FilasRegistro, MaxFilas)]
    /\ now = 1
    /\ req = <<>>
    /\ resp = NoResp
    /\ pool = [created |-> FALSE, used |-> 0]
    /\ conn = <<>>
    /\ tx = 0
    /\ archivos = NoArchivos

CalcularTotales ==
    /\ resp = NoResp
    /\ UNCHANGED <<archivos, db, now, req, pool, conn, tx>>
    /\ resp' = ReplyTo("calcular_totales_periodo", 0, "none",
                       CalcularTotalesPeriodo(db.ventas, db.compras,
                                              db.registros))

NextTotales == CalcularTotales

SpecTotales == InitTotales /\ [][NextTotales]_vars

(***************************************************************************)
(* config/database.py: execute_query over one table                        *)
(***************************************************************************)
MaxClave == 3

Claves == 1..MaxClave

\* The statements handed to execute_query: SELECT *, INSERT ... RETURNING,
\* DELETE ... WHERE key = k (no result set)
Sentencias ==
    {[kind |-> "select", k |-> 0]}
    \cup {[kind |-> "insert_returning", k |-> k] : k \in Claves}
    \cup {[kind |-> "delete", k |-> k] : k \in Claves}

\* cursor.execute(query, params): the table after the statement
Ejecutar(filas, s) ==
    IF s.kind = "insert_returning" THEN filas \cup {s.k}
    ELSE IF s.kind = "delete" THEN filas \ {s.k}
    ELSE filas

\* The statement fails in execute: a duplicate key
EjecutarFalla(filas, s) == s.kind = "insert_returning" /\ s.k \in filas

\* cursor.fetchall(): the result set; a statement without one makes it raise
TieneResultado(s) == s.kind \in {"select", "insert_returning"}

Fetchall(filas, s) == IF s.kind = "select" THEN filas ELSE {s.k}

\* cursor.rowcount
Rowcount(filas, s) ==
    IF s.kind = "select" THEN Cardinality(filas)
    ELSE IF s.kind = "delete" THEN Cardinality(filas \cap {s.k})
    ELSE 1

CommitDe_Siempre(fetch) == TRUE

\* with get_db_cursor(commit=not fetch)
CommitDe(fetch) == ~fetch

InitQuery ==
    /\ db = [filas |-> {}]
    /\ now = 1
    /\ req = <<>>
    /\ resp = NoResp
    /\ pool = [created |-> FALSE, used |-> 0]
    /\ conn = <<>>
    /\ tx = 0
    /\ archivos = NoArchivos

\* execute_query(query, params, fetch); a connection returned to the pool with
\* an open transaction is rolled back by the pool
ExecuteQuery(s, fetch, fault) ==
    /\ UNCHANGED <<archivos, now, req, pool, conn, tx>>
    /\ LET raised == \/ fault = "db_error"
                     \/ EjecutarFalla(db.filas, s)
                     \/ (fetch /\ ~TieneResultado(s))
           work == [db EXCEPT !.filas = Ejecutar(@, s)]
       IN /\ db' = GetDbCursorExit(db, work, raised, CommitDe(fetch))
          /\ resp' = ReplyTo("execute_query", 0, fault,
                             [s |-> s, fetch |-> fetch, raised |-> raised,
                              rows |-> IF fetch /\ ~raised
                                       THEN Fetchall(db.filas, s) ELSE {},
                              rowcount |-> IF ~fetch /\ ~raised
                                           THEN Rowcount(db.filas, s) ELSE 0])

NextQuery ==
    \E s \in Sentencias, fetch \in BOOLEAN, f \in InsertFaults :
        ExecuteQuery(s, fetch, f)

SpecQuery == InitQuery /\ [][NextQuery]_vars

(***************************************************************************)
(* utils/excel_generator.py: ExcelGenerator.generar_reporte_periodo        *)
(***************************************************************************)
MaxTop == 2

\* A row of the top-product list
FilasTop == {[nombre |-> n, cantidad_vendida |-> c] : n \in 1..2, c \in 1..2}

\* The period-summary records, as the period routes build them: the totals
\* and the top-product list, empty when nothing was sold
PeriodosData ==
    {[total_ventas |-> v, total_compras |-> c, top_productos |-> t] :
        v \in 0..MaxImporte, c \in 0..1, t \in SeqHasta(FilasTop, MaxTop)}

\* ExcelGenerator(): Workbook() with the default sheet removed
WorkbookNuevo == <<>>

\* self.wb.create_sheet(titulo), appended after the existing sheets
CreateSheet(wb, titulo, filas) == Append(wb, [titulo |-> titulo, filas |-> filas])

CrearHojaResumen(wb, periodo_data) ==
    CreateSheet(wb, "Resumen General", 1)

CrearHojaTopProductos(wb, top_productos) ==
    CreateSheet(wb, "Top Productos", Len(top_productos))

CrearHojaDetallesFinancieros(wb, periodo_data) ==
    CreateSheet(wb, "Detalles Financieros", 4)

\* if periodo_data.get('top_productos'): an absent key and an empty list are
\* both false
TieneTop(periodo_data) ==
    /\ "top_productos" \in DOMAIN periodo_data
    /\ periodo_data.top_productos # <<>>

GenerarReportePeriodo(wb, periodo_data) ==
    LET resumen == CrearHojaResumen(wb, periodo_data)
        top == IF TieneTop(periodo_data)
               THEN CrearHojaTopProductos(resumen, periodo_data.top_productos)
               ELSE resumen
    IN CrearHojaDetallesFinancieros(top, periodo_data)

\* The argument is held in db, the sheets of the saved workbook in resp.data
InitExcel ==
    /\ db \in PeriodosData
    /\ now = 1
    /\ req = <<>>
    /\ resp = NoResp
    /\ pool = [created |-> FALSE, used |-> 0]
    /\ conn = <<>>
    /\ tx = 0
    /\ archivos = NoArchivos

GenerarReporte ==
    /\ resp = NoResp
    /\ UNCHANGED <<archivos, db, now, req, pool, conn, tx>>
    /\ resp' = ReplyTo("generar_reporte_periodo", 0, "none",
                       [hojas |-> GenerarReportePeriodo(WorkbookNuevo, db)])

NextExcel == GenerarReporte

SpecExcel == InitExcel /\ [][NextExcel]_vars

(***************************************************************************)
(* routes/periodos.py: the route table, matched in declaration order       *)
(***************************************************************************)
MaxSegmentos == 2

Segmentos == {"cerrar", "periodo-actual", "excel", "1", "7"}

\* The segments that int() accepts
Enteros == {"1", "7"}

Metodos == {"GET", "POST"}

\* A path parameter of the route template
Param == "{id_periodo}"

\* The @router decorators of periodos.py, top to bottom
RutasPeriodos ==
    <<[metodo |-> "POST", plantilla |-> <<"cerrar">>,
       handler |-> "cerrar_periodo_mensual"],
      [metodo |-> "GET", plantilla |-> <<>>,
       handler |-> "listar_periodos"],
      [metodo |-> "GET", plantilla |-> <<Param>>,
       handler |-> "obtener_periodo"],
      [metodo |-> "GET", plantilla |-> <<Param, "excel">>,
       handler |-> "generar_excel_periodo"],
      [metodo |-> "GET", plantilla |-> <<"periodo-actual", "excel">>,
       handler |-> "generar_excel_periodo_actual"]>>

\* The path regex of a route: a parameter takes any one segment ([^/]+), a
\* literal only itself
PathMatch(plantilla, path) ==
    /\ Len(plantilla) = Len(path)
    /\ \A i \in DOMAIN path : plantilla[i] = Param \/ plantilla[i] = path[i]

\* The first route, in declaration order, whose path and method match
FullMatches(rutas, metodo, path) ==
    {i \in DOMAIN rutas :
        PathMatch(rutas[i].plantilla, path) /\ rutas[i].metodo = metodo}

PartialMatches(rutas, path) ==
    {i \in DOMAIN rutas : PathMatch(rutas[i].plantilla, path)}

Primero(S) == CHOOSE i \in S : \A j \in S : i <= j

\* id_periodo: int, validated after the route was chosen
ParamValido(plantilla, path) ==
    \A i \in DOMAIN path : plantilla[i] = Param => path[i] \in Enteros

\* The router: the handler a request is dispatched to and the status that the
\* routing itself decides (0: the handler runs)
Dispatch(rutas, metodo, path) ==
    IF FullMatches(rutas, metodo, path) # {}
    THEN LET r == rutas[Primero(FullMatches(rutas, metodo, path))]
         IN [handler |-> r.handler,
             status |-> IF ParamValido(r.plantilla, path) THEN 0 ELSE 422]
    ELSE IF PartialMatches(rutas, path) # {}
    THEN [handler |-> "none", status |-> 405]
    ELSE [handler |-> "none", status |-> 404]

\* The request is held in req, the outcome of the routing in resp
InitRutas ==
    /\ db = EmptyDb
    /\ now = 1
    /\ req \in [metodo : Metodos, path : SeqHasta(Segmentos, MaxSegmentos)]
    /\ resp = NoResp
    /\ pool = [created |-> FALSE, used |-> 0]
    /\ conn = <<>>
    /\ tx = 0
    /\ archivos = NoArchivos

Enrutar ==
    /\ resp = NoResp
    /\ UNCHANGED <<archivos, db, now, req, pool, conn, tx>>
    /\ LET d == Dispatch(RutasPeriodos, req.metodo, req.path)
       IN resp' = ReplyTo(d.handler, d.status, "none",
                          [metodo |-> req.metodo, path |-> req.path])

NextRutas == Enrutar

SpecRutas == InitRutas /\ [][NextRutas]_vars

(***************************************************************************)
(* config/database.py: the lazy creation of connection_pool, one step per  *)
(* read or write of the global by a worker thread                          *)
(***************************************************************************)
NumHilos == 3

Hilos == 1..NumHilos

\* A worker between requests: origen is the pool its last connection came
\* from, destino the pool release_db_connection handed it to (0: none yet)
HiloIdle == [pc |-> "idle", origen |-> 0, destino |-> 0]

\* connection_pool = None: no pool object created, the global unset (0)
InitLazy ==
    /\ db = EmptyDb
    /\ now = 1
    /\ req = <<>>
    /\ resp = NoResp
    /\ pool = [global |-> 0, creados |-> 0]
    /\ conn = [h \in Hilos |-> HiloIdle]
    /\ tx = 0
    /\ archivos = NoArchivos

\* get_db_connection: if connection_pool is None
LazyTest(h) ==
    /\ conn[h].pc = "idle"
    /\ UNCHANGED <<archivos, db, now, req, resp, pool, tx>>
    /\ conn' = [conn EXCEPT ![h] =
                  [pc |-> IF pool.global = 0 THEN "init" ELSE "getconn",
                   origen |-> 0, destino |-> 0]]

\* init_connection_pool: connection_pool = SimpleConnectionPool(...), a new
\* pool object bound to the global whatever the global held
InitConnectionPool(h) ==
    /\ conn[h].pc = "init"
    /\ UNCHANGED <<archivos, db, now, req, resp, tx>>
    /\ pool' = [global |-> pool.creados + 1, creados |-> pool.creados + 1]
    /\ conn' = [conn EXCEPT ![h].pc = "getconn"]

\* conn = connection_pool.getconn(): from the pool the global names now
LazyGetconn(h) ==
    /\ conn[h].pc = "getconn"
    /\ UNCHANGED <<archivos, db, now, req, resp, pool, tx>>
    /\ conn' = [conn EXCEPT ![h].pc = "held", ![h].origen = pool.global]

\* release_db_connection: connection_pool.putconn(conn), to the pool the
\* global names now
LazyRelease(h) ==
    /\ conn[h].pc = "held"
    /\ UNCHANGED <<archivos, db, now, req, resp, pool, tx>>
    /\ conn' = [conn EXCEPT ![h].pc = "idle", ![h].destino = pool.global]

NextLazy ==
    \/ \E h \in Hilos : LazyTest(h)
    \/ \E h \in Hilos : InitConnectionPool(h)
    \/ \E h \in Hilos : LazyGetconn(h)
    \/ \E h \in Hilos : LazyRelease(h)

SpecLazy == InitLazy /\ [][NextLazy]_vars

(***************************************************************************)
(* routes/periodos.py: close requests with any pair of dates               *)
(***************************************************************************)
\* PeriodoMensualCreate: mes within its range, fecha_inicio and fecha_fin any
\* two datetimes
NextCierre ==
    \/ \E r \in Reqs, m \in Meses, fi \in Tiempos, ff \in Tiempos :
          CerrarCheck(r, m, fi, ff, "none")
    \/ \E r \in Reqs, f \in InsertFaults : CerrarProc(r, f)

SpecCierre == InitPeriodo /\ [][NextCierre]_vars

(***************************************************************************)
(* Properties of the ledger (Spec)                                         *)
(***************************************************************************)
\* C1: in every reachable state every product has stock >= 0, after any
\* sequence of product creates and updates (JSON and form), sales and purchases.
C1_StockNoNegativo ==
    \A i \in DOMAIN db.productos : db.productos[i].stock >= 0

StockCambia(i) ==
    /\ i \in DOMAIN db.productos
    /\ i \in DOMAIN db'.productos
    /\ db'.productos[i].stock # db.productos[i].stock

RegistroExitoso(r) ==
    r.op \in {"registrar_venta", "registrar_compra"} /\ r.status = 201

ActualizacionConStock(r) ==
    /\ r.op \in {"actualizar_producto", "actualizar_producto_con_imagen"}
    /\ r.status = 200
    /\ r.data.con_stock

C3_VentaFallidaSinEfecto ==
    [][resp'.op = "registrar_venta" =>
          /\ resp'.status # 201 =>
                /\ db'.productos = db.productos
                /\ db'.ventas = db.ventas
          /\ ( /\ resp'.fault = "none"
               /\ resp'.data.cantidad > 0
               /\ resp'.data.id_producto \in DOMAIN db.productos
               /\ resp'.data.cantidad > db.productos[resp'.data.id_producto].stock )
             => resp'.status = 400 /\ db' = db]_vars

\* A sale failed at its read-back, after the procedure had lowered the stock
C3_Witness ==
    /\ resp.op = "registrar_venta"
    /\ resp.status = 500
    /\ resp.fault = "readback"
    /\ resp.data.id_producto \in DOMAIN db.productos
    /\ db.productos[resp.data.id_producto].stock >= resp.data.cantidad
    /\ resp.data.cantidad > 0

(***************************************************************************)
(* Properties of the period close (SpecPeriodo)                            *)
(***************************************************************************)
HaySnapshot(d, mes) == \E i \in DOMAIN d.periodos : d.periodos[i].mes = mes

\* A close request passes its existence check in this step
PasaCheck(r) == req[r].pc = "idle" /\ req'[r].pc = "checked"

\* A close request is answered by its existence check in this step
FinCheck == req' = req /\ resp' # resp /\ resp'.op = "cerrar_periodo_mensual"

\* A close request is answered by its procedure scope in this step
FinProc(r) == req[r].pc = "checked" /\ req'[r].pc = "idle"

\* C4: closing a (year, month) that has no snapshot succeeds and creates one;
\* a close request made once the snapshot exists is answered 400 and leaves the
\* stored snapshot, and all the tables, as they were.
C4_CerrarUnaVez ==
    [][/\ \A r \in Reqs :
            (FinProc(r) /\ resp'.fault = "none" /\ ~HaySnapshot(db, req[r].mes))
            => /\ resp'.status = 201
               /\ Len(db'.periodos) = Len(db.periodos) + 1
               /\ db'.periodos[Len(db'.periodos)].mes = req[r].mes
               /\ SubSeq(db'.periodos, 1, Len(db.periodos)) = db.periodos
       /\ \A r \in Reqs : PasaCheck(r) => ~HaySnapshot(db, req'[r].mes)
       /\ (FinCheck /\ resp'.fault = "none")
            => /\ HaySnapshot(db, resp'.data.mes)
               /\ resp'.status = 400
               /\ db' = db]_vars

\* A second close of a closed month was answered 400
C4_Witness ==
    /\ resp.op = "cerrar_periodo_mensual"
    /\ resp.status = 400
    /\ HaySnapshot(db, resp.data.mes)

UnSnapshotPorClave ==
    \A i, j \in DOMAIN db.periodos :
        db.periodos[i].mes = db.periodos[j].mes => i = j

\* C5: under any interleaving of close requests for the same (year, month) at
\* most one snapshot is persisted for it, and every request that does not
\* create the snapshot is answered 400, never a server error.
C5_CierresConcurrentes ==
    /\ []UnSnapshotPorClave
    /\ [][\A r \in Reqs :
            (FinProc(r) /\ resp'.fault = "none" /\ db'.periodos = db.periodos)
            => resp'.status = 400]_vars

\* C6: once a snapshot exists it exists in every later state with the same
\* field values, whatever sales, purchases, entries, product changes or close
\* requests follow.
C6_SnapshotInmutable ==
    [][\A i \in DOMAIN db.periodos :
          /\ i \in DOMAIN db'.periodos
          /\ db'.periodos[i] = db.periodos[i]]_vars

\* A sale was registered after a close whose snapshot no longer shows the
\* figures of its range
C6_Witness ==
    /\ resp.op = "registrar_venta"
    /\ resp.status = 201
    /\ \E i \in DOMAIN db.periodos :
          db.periodos[i] # Snapshot(db, db.periodos[i].mes,
                                    db.periodos[i].fecha_inicio,
                                    db.periodos[i].fecha_fin, now)

(***************************************************************************)
(* Properties of the live report (SpecVista)                               *)
(***************************************************************************)
MismasFiguras(a, b) ==
    /\ a.total_ventas = b.total_ventas
    /\ a.total_compras = b.total_compras
    /\ a.total_inversion_manual = b.total_inversion_manual
    /\ a.total_gastos_manual = b.total_gastos_manual
    /\ a.ganancia_neta = b.ganancia_neta
    /\ a.top_productos = b.top_productos
    /\ a.cantidad_productos_vendidos = b.cantidad_productos_vendidos
    /\ a.cantidad_productos_registrados = b.cantidad_productos_registrados

\* C7: the record built by generar_excel_periodo_actual carries the same
\* totals, net profit, top-product list and product counts as the snapshot
\* that closing the current month at the same instant would persist.
C7_VistaIgualSnapshot ==
    (resp.op = "generar_excel_periodo_actual" /\ resp.status = 200)
    => MismasFiguras(resp.data,
                     Snapshot(db, resp.data.mes, resp.data.fecha_inicio,
                              resp.data.fecha_fin, now))

(***************************************************************************)
(* Properties of the pool and the cursor scope (SpecPool)                  *)
(***************************************************************************)
\* The workers that hold a connection they have yet to give back
Holders == {p \in Procs : conn[p].pc \in {"connected", "body", "exit"}}

\* C8: every connection acquired from the pool is returned to it on every
\* exit path of the operation that acquired it: the connections marked used
\* are exactly those held by operations still running.
C8_ConexionDevuelta == pool.used = Cardinality(Holders)

\* A commit scope ends in this step
SaleDeScope(p) ==
    /\ conn[p].pc = "exit"
    /\ conn[p].op = "cursor_commit"
    /\ conn'[p].pc = "idle"

\* C9: in get_db_cursor(commit=True), a body that exits by raising has
\* rollback called and none of its writes committed, and commit is called
\* only when the body completed without raising.
C9_RollbackSiFalla ==
    [][\A p \in Procs :
          SaleDeScope(p) =>
             /\ conn[p].raised =>
                   /\ conn'[p].result.rollbackCalled
                   /\ ~conn'[p].result.commitCalled
                   /\ tx' = tx
             /\ conn'[p].result.commitCalled => ~conn[p].raised
             /\ tx' # tx => ~conn[p].raised]_vars

\* A commit scope whose body raised after a write has ended
C9_Witness ==
    \E p \in Procs :
       /\ conn[p].result.kind = "scope"
       /\ conn[p].op = "cursor_commit"
       /\ conn[p].result.bodyRaised
       /\ conn[p].wrote = 1

\* C10: at most 10 connections are checked out at every moment; an acquire
\* attempted while 10 are checked out fails with the pool-exhausted error and
\* adds no connection; a release frees exactly one place.
C10_LimiteDelPool ==
    /\ [](pool.used <= MaxConn)
    /\ [][/\ \A p \in Procs :
               (conn[p].pc = "idle" /\ conn'[p] # conn[p] /\ pool.used >= MaxConn)
               => /\ conn'[p].result.kind = "pool_exhausted"
                  /\ pool'.used = pool.used
          /\ pool'.used < pool.used => pool'.used = pool.used - 1]_vars

(***************************************************************************)
(* Properties of the status mapping of sales and purchases (Spec)          *)
(***************************************************************************)
\* The outcome of the registration call of the request answered in this step:
\* the statement failing, or what the procedure returns on the state before it
FalloVenta ==
    IF resp'.fault = "db_error" THEN "db_error"
    ELSE ProcRegistrarVenta(db, resp'.data.id_producto,
                            resp'.data.cantidad, now).err

FalloCompra ==
    IF resp'.fault = "db_error" THEN "db_error"
    ELSE ProcRegistrarCompra(db, resp'.data.id_producto,
                             resp'.data.cantidad, 0, now).err

\* C14: registrar_venta answers 400 exactly when the procedure fails with
\* insufficient stock, 404 exactly when it fails with product not found, and
\* 500 for every other failure; registrar_compra answers 404 exactly for
\* product not found and 500 for every other failure.
C14_EstadoPorCondicion ==
    [][/\ (resp'.op = "registrar_venta" /\ ValidCantidad(resp'.data.cantidad))
          => /\ resp'.status = 400 <=> FalloVenta = "Stock insuficiente"
             /\ resp'.status = 404 <=> FalloVenta = "Producto no encontrado"
             /\ resp'.status = 500 <=>
                   \/ FalloVenta = "db_error"
                   \/ FalloVenta = "none" /\ resp'.fault = "readback"
             /\ resp'.status \in {201, 400, 404, 500}
       /\ (resp'.op = "registrar_compra" /\ ValidCantidad(resp'.data.cantidad))
          => /\ resp'.status = 404 <=> FalloCompra = "Producto no encontrado"
             /\ resp'.status = 500 <=>
                   \/ FalloCompra = "db_error"
                   \/ FalloCompra = "none" /\ resp'.fault = "readback"
             /\ resp'.status \in {201, 404, 500}]_vars

\* A sale of a product that does not exist was answered 404
C14_Witness ==
    /\ resp.op = "registrar_venta"
    /\ resp.status = 404
    /\ resp.fault = "none"
    /\ resp.data.id_producto \notin DOMAIN db.productos

\* C15: when the registration call succeeds and the read-back fails, the
\* request is answered 500, never 201, 400 or 404, and the registration is
\* undone with it.
C15_ReadbackEsErrorDeServidor ==
    [][/\ (/\ resp'.op = "registrar_venta"
           /\ ValidCantidad(resp'.data.cantidad)
           /\ resp'.fault = "readback"
           /\ FalloVenta = "none")
          => resp'.status = 500 /\ db' = db
       /\ (/\ resp'.op = "registrar_compra"
           /\ ValidCantidad(resp'.data.cantidad)
           /\ resp'.fault = "readback"
           /\ FalloCompra = "none")
          => resp'.status = 500 /\ db' = db]_vars

\* A purchase of an existing product whose read-back failed was answered 500
C15_Witness ==
    /\ resp.op = "registrar_compra"
    /\ resp.status = 500
    /\ resp.fault = "readback"
    /\ resp.data.id_producto \in DOMAIN db.productos
    /\ resp.data.cantidad > 0

(***************************************************************************)
(* Properties of the product handlers under interleaving (SpecCatalogo)    *)
(***************************************************************************)
\* The last step of a hard delete: its DELETE scope ends
FinBorradoFisico(r) == req[r].pc = "imagen" /\ req'[r].pc = "idle"

\* A hard delete is answered by its count scope in this step
FinConteo ==
    /\ req' = req
    /\ resp'.op = "eliminar_producto"
    /\ resp'.data.fisico

ImagenGuardada(id) == db.productos[id].imagen_url \subseteq archivos'.files

\* C11: a hard delete removes the product row only when no sale and no
\* purchase references the product at the time of removal; when one does, the
\* request is answered 400 and the product row, its stock and its stored image
\* are unchanged.
C11_BorradoFisicoSoloSinReferencias ==
    [][/\ \A id \in ProdIds :
            (id \in DOMAIN db.productos /\ id \notin DOMAIN db'.productos)
            => ~Referenciado(db, id)
       /\ \A r \in Reqs :
            (/\ FinBorradoFisico(r)
             /\ resp'.fault = "none"
             /\ req[r].id \in DOMAIN db.productos
             /\ Referenciado(db, req[r].id))
            => /\ resp'.status = 400
               /\ db'.productos = db.productos
               /\ ImagenGuardada(req[r].id)
       /\ (/\ FinConteo
           /\ resp'.fault = "none"
           /\ Referenciado(db, resp'.data.id))
            => /\ resp'.status = 400
               /\ db' = db
               /\ archivos' = archivos]_vars

\* The last step of a product update: its UPDATE scope ends
FinActualizarProducto(r) ==
    /\ req[r].pc = "checked"
    /\ req[r].op \in {"actualizar_producto", "actualizar_producto_con_imagen"}
    /\ req'[r].pc = "idle"

\* C12: a product update is answered 404 whenever the target row does not
\* exist when the update is applied, also when a hard delete removed the row
\* between the existence check and the UPDATE statement.
C12_ActualizarInexistenteEs404 ==
    [][\A r \in Reqs :
          (/\ FinActualizarProducto(r)
           /\ resp'.fault = "none"
           /\ req[r].id \notin DOMAIN db.productos)
          => resp'.status = 404]_vars

OpsCatalogo ==
    {"crear_producto", "crear_producto_con_imagen", "actualizar_producto",
     "actualizar_producto_con_imagen", "eliminar_producto"}

\* C16: every request handler does all of its database work in one
\* transaction scope, one connection checkout ended by one commit or rollback;
\* the checks of the update handlers and of the hard delete run in the
\* transaction of the write they guard.
C16_UnaSolaTransaccion ==
    resp.op \in OpsCatalogo => resp.data.scopes <= 1

OpsAlta == {"crear_categoria", "crear_producto", "crear_producto_con_imagen"}

\* C13: a create whose INSERT violates a uniqueness constraint (category
\* name, product barcode) is answered 400 and creates no row, in
\* crear_categoria, crear_producto and crear_producto_con_imagen alike.
C13_DuplicadoEs400 ==
    [][(/\ resp'.op \in OpsAlta
        /\ resp'.fault = "none"
        /\ resp'.data.duplicado)
       => resp'.status = 400 /\ db' = db]_vars

(***************************************************************************)
(* Properties of the update handlers (SpecActualizaciones)                 *)
(***************************************************************************)
FinActualizarCategoria(r) ==
    /\ req[r].pc = "checked"
    /\ req[r].op = "actualizar_categoria"
    /\ req'[r].pc = "idle"

ColumnasCategoria == {"nombre", "activo"}

\* Columns whose value is a scalar, and columns that hold an optional value
ColumnasProducto == {"stock", "activo"}

ColumnasOpcionales == {"codigo_barras", "imagen_url"}

\* Row `despues` is row `antes` with exactly the supplied fields replaced
SoloCamposDados(antes, despues, campos, columnas) ==
    \A c \in columnas :
        despues[c] = IF campos[c] = {} THEN antes[c] ELSE Val(campos[c])

SoloOpcionalesDados(antes, despues, campos) ==
    \A c \in ColumnasOpcionales :
        despues[c] = IF campos[c] = {} THEN antes[c] ELSE campos[c]

\* An update answered by its first part: no UPDATE statement was run
RespondeSinEscribir(op) ==
    /\ req' = req
    /\ resp'.op = op
    /\ resp'.status = 200

\* C17: an update changes exactly the fields supplied in the request, every
\* column not supplied keeps its prior value, every other row is left alone;
\* an update that supplies no field performs no write and returns the current
\* record.
C17_SoloCamposSuministrados ==
    [][/\ \A r \in Reqs :
            FinActualizarCategoria(r)
            => IF resp'.status = 200
               THEN /\ SoloCamposDados(db.categorias[req[r].id],
                                       db'.categorias[req[r].id],
                                       req[r].campos, ColumnasCategoria)
                    /\ [db' EXCEPT !.categorias[req[r].id] =
                                      db.categorias[req[r].id]] = db
               ELSE db' = db
       /\ \A r \in Reqs :
            FinActualizarProducto(r)
            => IF resp'.status = 200
               THEN /\ SoloCamposDados(db.productos[req[r].id],
                                       db'.productos[req[r].id],
                                       req[r].campos, ColumnasProducto)
                    /\ SoloOpcionalesDados(db.productos[req[r].id],
                                           db'.productos[req[r].id],
                                           req[r].campos)
                    /\ db'.productos[req[r].id].precio_venta =
                          db.productos[req[r].id].precio_venta
                    /\ [db' EXCEPT !.productos[req[r].id] =
                                      db.productos[req[r].id]] = db
               ELSE db' = db
       /\ RespondeSinEscribir("actualizar_categoria")
            => /\ db' = db
               /\ resp'.data.campos = [nombre |-> {}, activo |-> {}]
               /\ resp'.data.registro = db.categorias[resp'.data.id]
       /\ \A op \in {"actualizar_producto", "actualizar_producto_con_imagen"} :
            RespondeSinEscribir(op)
            => /\ db' = db
               /\ SinCampos(resp'.data.campos)
               /\ resp'.data.registro = db.productos[resp'.data.id]]_vars

\* A product update that supplied the stock only was applied to a product
\* whose barcode is set, and a category update without fields was answered
C17_Witness ==
    /\ resp.op = "actualizar_producto"
    /\ resp.status = 200
    /\ resp.data.scopes = 2
    /\ resp.data.campos.stock = {0}
    /\ resp.data.campos.codigo_barras = {}
    /\ db.productos[resp.data.id].codigo_barras # {}
    /\ db.productos[resp.data.id].stock = 0
    /\ \E i \in DOMAIN db.categorias : ~db.categorias[i].activo

(***************************************************************************)
(* Properties of the category handlers (SpecCategorias)                    *)
(***************************************************************************)
\* A handler with one scope answered in this step
RespuestaDirecta(op) == req' = req /\ resp'.op = op

SoloActivar == [nombre |-> {}, activo |-> {TRUE}]

\* The UPDATE of request r is the operation that follows a successful
\* eliminar_categoria of the same category, and it only sets activo = TRUE
ReactivaTrasEliminar(r) ==
    /\ FinActualizarCategoria(r)
    /\ resp.op = "eliminar_categoria"
    /\ resp.status = 200
    /\ resp.data.id = req[r].id
    /\ req[r].campos = SoloActivar
    /\ resp'.status = 200

EliminarConservaFila ==
    (RespuestaDirecta("eliminar_categoria") /\ resp'.status = 200)
    => /\ resp'.data.id \in DOMAIN db.categorias
       /\ db' = [db EXCEPT !.categorias[resp'.data.id].activo = FALSE]

NingunaFilaSeBorra == DOMAIN db.categorias \subseteq DOMAIN db'.categorias

\* C18 as stated: eliminar_categoria sets activo to false and keeps the row
\* and its other fields; a following actualizar_categoria with activo=true
\* restores the category to its state before the delete; no step removes a
\* category row.
C18_ReactivarRestaura ==
    [][/\ EliminarConservaFila
       /\ \A r \in Reqs :
            ReactivaTrasEliminar(r)
            => db'.categorias[req[r].id] = Val(resp.data.antes)
       /\ NingunaFilaSeBorra]_vars

\* C18 amended: eliminar_categoria sets activo to false and keeps the row and
\* its other fields; a following actualizar_categoria with activo=true leaves
\* the category as it was before the delete except that activo is true, which
\* is its state before the delete when it was active then; no step removes a
\* category row.
C18_ReactivarRestauraSiEstabaActiva ==
    [][/\ EliminarConservaFila
       /\ \A r \in Reqs :
            ReactivaTrasEliminar(r)
            => /\ db'.categorias[req[r].id] =
                     [Val(resp.data.antes) EXCEPT !.activo = TRUE]
               /\ Val(resp.data.antes).activo
                     => db'.categorias[req[r].id] = Val(resp.data.antes)
       /\ NingunaFilaSeBorra]_vars

\* An active category was deleted and the update that reactivates it is the
\* next operation on it
C18_Witness ==
    /\ resp.op = "eliminar_categoria"
    /\ resp.status = 200
    /\ Val(resp.data.antes).activo
    /\ ~db.categorias[resp.data.id].activo
    /\ db.categorias[resp.data.id].nombre = Val(resp.data.antes).nombre
    /\ \E r \in Reqs :
          /\ req[r].pc = "checked"
          /\ req[r].op = "actualizar_categoria"
          /\ req[r].id = resp.data.id
          /\ req[r].campos = SoloActivar

(***************************************************************************)
(* Properties of the delete handlers (SpecBajas)                           *)
(***************************************************************************)
OpsBaja == {"eliminar_categoria", "eliminar_producto",
            "eliminar_registro_financiero"}

\* A delete handler is answered in this step, by its only scope or by one of
\* the scopes of the hard delete
FinBaja ==
    /\ resp'.op \in OpsBaja
    /\ \/ req' = req
       \/ \E r \in Reqs : req[r].pc \in {"counted", "imagen"} /\ req'[r].pc = "idle"

ExisteRegistro(id) ==
    \E i \in DOMAIN db.registros : db.registros[i].id_registro = id

\* C20: the NotFound HTTPException raised inside the get_db_cursor scope of a
\* delete handler (soft delete of a missing category or product, hard delete
\* of a missing product, delete of a missing financial entry) reaches the
\* client as 404, never as 500; an exception that is not an HTTPException (a
\* failing statement, a DELETE refused by the database) is answered 500.
C20_NotFoundLlegaComo404 ==
    [][/\ (/\ RespuestaDirecta("eliminar_categoria")
           /\ resp'.fault = "none"
           /\ resp'.data.id \notin DOMAIN db.categorias)
          => resp'.status = 404 /\ db' = db
       /\ (/\ RespuestaDirecta("eliminar_producto")
           /\ ~resp'.data.fisico
           /\ resp'.fault = "none"
           /\ resp'.data.id \notin DOMAIN db.productos)
          => resp'.status = 404 /\ db' = db
       /\ \A r \in Reqs :
            (/\ FinBorradoFisico(r)
             /\ resp'.fault = "none"
             /\ req[r].id \notin DOMAIN db.productos)
            => resp'.status = 404 /\ db' = db
       /\ (/\ RespuestaDirecta("eliminar_registro_financiero")
           /\ resp'.fault = "none"
           /\ ~ExisteRegistro(resp'.data.id))
          => resp'.status = 404 /\ db' = db
       /\ (FinBaja /\ resp'.fault = "db_error")
          => resp'.status = 500 /\ db' = db
       /\ \A r \in Reqs :
            (/\ FinBorradoFisico(r)
             /\ resp'.fault = "none"
             /\ req[r].id \in DOMAIN db.productos
             /\ Referenciado(db, req[r].id))
            => resp'.status = 500 /\ db' = db]_vars

\* The DELETE scope of a hard delete met no row and the request was answered
\* 404, with a category, a product and a financial entry registered
C20_Witness ==
    /\ resp.op = "eliminar_producto"
    /\ resp.data.fisico
    /\ resp.data.scopes = 3
    /\ resp.fault = "none"
    /\ resp.status = 404
    /\ resp.data.id \notin DOMAIN db.productos
    /\ db.categorias # <<>>
    /\ db.registros # <<>>

(***************************************************************************)
(* Properties of calcular_totales_periodo (SpecTotales)                    *)
(***************************************************************************)
\* The amounts of the entries of one type, added up over the positions
RECURSIVE MontoDeTipo(_, _, _)
MontoDeTipo(rows, tipo, n) ==
    IF n = 0 THEN 0
    ELSE MontoDeTipo(rows, tipo, n - 1)
         + (IF rows[n].tipo = tipo /\ "monto" \in DOMAIN rows[n]
            THEN rows[n].monto ELSE 0)

RECURSIVE TotalDeFilas(_, _)
TotalDeFilas(rows, n) ==
    IF n = 0 THEN 0
    ELSE TotalDeFilas(rows, n - 1)
         + (IF "total" \in DOMAIN rows[n] THEN rows[n].total ELSE 0)

SinAjustes(rows) == SelectSeq(rows, LAMBDA r : r.tipo # "ajuste")

\* C21: calcular_totales_periodo returns ganancia_neta = total_ventas -
\* total_compras + ganancia_manual - inversion_manual - gastos_manual, each
\* manual total is the sum of the entries of its own type, and the entries of
\* type 'ajuste' contribute to no total.
C21_GananciaNeta ==
    resp.op = "calcular_totales_periodo"
    => LET t == resp.data
           n == Len(db.registros)
       IN /\ t.total_ventas = TotalDeFilas(db.ventas, Len(db.ventas))
          /\ t.total_compras = TotalDeFilas(db.compras, Len(db.compras))
          /\ t.ganancia_manual = MontoDeTipo(db.registros, "ganancia", n)
          /\ t.inversion_manual = MontoDeTipo(db.registros, "inversion", n)
          /\ t.gastos_manual = MontoDeTipo(db.registros, "gasto", n)
          /\ t.ganancia_neta =
                TotalDeFilas(db.ventas, Len(db.ventas))
                - TotalDeFilas(db.compras, Len(db.compras))
                + MontoDeTipo(db.registros, "ganancia", n)
                - MontoDeTipo(db.registros, "inversion", n)
                - MontoDeTipo(db.registros, "gasto", n)
          /\ t = CalcularTotalesPeriodo(db.ventas, db.compras,
                                        SinAjustes(db.registros))

\* The function was applied to lists that hold a sale, a purchase, an entry of
\* type 'ajuste' and an entry of another type
C21_Witness ==
    /\ resp.op = "calcular_totales_periodo"
    /\ db.ventas # <<>>
    /\ db.compras # <<>>
    /\ \E i \in DOMAIN db.registros : db.registros[i].tipo = "ajuste"
    /\ \E i \in DOMAIN db.registros : db.registros[i].tipo = "inversion"
    /\ resp.data.ganancia_neta < 0

(***************************************************************************)
(* Properties of execute_query (SpecQuery)                                 *)
(***************************************************************************)
\* execute_query returned in this step, without raising
QueryDevuelve ==
    /\ resp'.op = "execute_query"
    /\ ~resp'.data.raised

\* C22: execute_query with fetch=True returns all result rows and performs no
\* commit (the table is as before, also after a statement that writes); with
\* fetch=False it executes the statement, commits, and returns the
\* affected-row count.
C22_ExecuteQuery ==
    [][/\ (QueryDevuelve /\ resp'.data.fetch)
          => /\ db' = db
             /\ resp'.data.rows =
                   IF resp'.data.s.kind = "select" THEN db.filas
                   ELSE {resp'.data.s.k}
       /\ (QueryDevuelve /\ ~resp'.data.fetch)
          => /\ resp'.data.s.kind = "insert_returning"
                   => db'.filas = db.filas \cup {resp'.data.s.k}
             /\ resp'.data.s.kind = "delete"
                   => db'.filas = db.filas \ {resp'.data.s.k}
             /\ resp'.data.s.kind = "select" => db' = db
             /\ resp'.data.rowcount =
                   IF resp'.data.s.kind = "select" THEN Cardinality(db.filas)
                   ELSE IF resp'.data.s.kind = "insert_returning" THEN 1
                   ELSE IF resp'.data.s.k \in db.filas THEN 1 ELSE 0
       /\ (resp'.op = "execute_query" /\ resp'.data.raised) => db' = db]_vars

\* A writing statement was run with fetch=True on a table with rows and its
\* row was returned but is not in the table
C22_Witness ==
    /\ resp.op = "execute_query"
    /\ resp.data.fetch
    /\ ~resp.data.raised
    /\ resp.data.s.kind = "insert_returning"
    /\ resp.data.rows = {resp.data.s.k}
    /\ resp.data.s.k \notin db.filas
    /\ db.filas # {}

(***************************************************************************)
(* Properties of GET /health (SpecPool, SpecSalud)                         *)
(***************************************************************************)
\* The health check of worker p is answered in this step
FinHealth(p) ==
    /\ conn'[p] # conn[p]
    /\ conn'[p].pc = "idle"
    /\ conn'[p].op = "health_check"

\* C23: GET /health answers 200 with status healthy whenever a connection was
\* obtained from the pool and 503 whenever obtaining it failed (pool exhausted
\* or connection error), after any sequence of earlier requests, and never
\* any other status.
C23_HealthEstado ==
    [][\A p \in Procs :
          FinHealth(p)
          => /\ resp'.op = "health_check"
             /\ resp'.status \in {200, 503}
             /\ resp'.status = 200 <=> conn[p].pc = "connected"
             /\ resp'.status = 503 <=> conn[p].pc \in {"idle", "getconn"}
             /\ resp'.data.healthy <=> resp'.status = 200]_vars

\* A health check was answered 503 by the exhausted pool after other
\* operations had committed
C23_Witness ==
    /\ resp.op = "health_check"
    /\ resp.status = 503
    /\ tx > 0
    /\ \E p \in Procs :
          /\ conn[p].op = "health_check"
          /\ conn[p].result.kind = "pool_exhausted"

\* C25: after any number of completed GET /health requests the number of
\* connections checked out of the pool is the same as before them, and health
\* checks alone never meet an exhausted pool.
C25_HealthNoRetieneConexiones ==
    /\ (\A p \in Procs : conn[p].pc = "idle") => pool.used = 0
    /\ \A p \in Procs : conn[p].result.kind # "pool_exhausted"

(***************************************************************************)
(* Properties of generar_reporte_periodo (SpecExcel)                       *)
(***************************************************************************)
Titulos(hojas) == [i \in DOMAIN hojas |-> hojas[i].titulo]

\* C24: for every period-summary record, also one whose top-product list is
\* empty, generar_reporte_periodo on a fresh ExcelGenerator produces a
\* workbook with exactly three sheets in the order summary, top products,
\* financial details.
C24_TresHojas ==
    resp.op = "generar_reporte_periodo"
    => Titulos(resp.data.hojas) =
          <<"Resumen General", "Top Productos", "Detalles Financieros">>

(***************************************************************************)
(* Properties of the route table of the periods (SpecRutas)                *)
(***************************************************************************)
\* C27: a GET request for /periodos/periodo-actual/excel is dispatched to
\* generar_excel_periodo_actual; the /{id_periodo}/excel route declared
\* before it does not capture it.
C27_PeriodoActualEnrutado ==
    (/\ resp # NoResp
     /\ req.metodo = "GET"
     /\ req.path = <<"periodo-actual", "excel">>)
    => resp.op = "generar_excel_periodo_actual"

(***************************************************************************)
(* Properties of the lazy pool creation (SpecLazy)                         *)
(***************************************************************************)
\* C28: under any interleaving of concurrent first requests the lazy
\* initialisation creates at most one connection pool, and every connection
\* is released to the pool it was acquired from.
C28_UnSoloPool ==
    /\ pool.creados <= 1
    /\ \A h \in Hilos :
          conn[h].destino # 0 => conn[h].destino = conn[h].origen

(***************************************************************************)
(* Properties of the dates of a close (SpecCierre)                         *)
(***************************************************************************)
\* C29: every persisted snapshot has fecha_inicio <= fecha_fin and both
\* timestamps inside the calendar month it is keyed on; a close request whose
\* dates violate this creates no snapshot.
C29_FechasDentroDelMes ==
    \A i \in DOMAIN db.periodos :
        /\ db.periodos[i].fecha_inicio <= db.periodos[i].fecha_fin
        /\ MesDe(db.periodos[i].fecha_inicio) = db.periodos[i].mes
        /\ MesDe(db.periodos[i].fecha_fin) = db.periodos[i].mes

(***************************************************************************)
(* Properties of the image store (SpecCatalogo, SpecAltas)                 *)
(***************************************************************************)
\* No request is between two of its steps
SinPeticionEnCurso == \A r \in Reqs : req[r].pc = "idle"

\* C26: after any sequence of product operations, also hard deletes and
\* image-bearing updates that fail at their database step, every product row
\* with a non-null imagen_url refers to an image file that exists in storage.
C26_ImagenDeFilaExiste ==
    SinPeticionEnCurso
    => \A id \in DOMAIN db.productos :
          db.productos[id].imagen_url \subseteq archivos.files

\* C30: a crear_producto_con_imagen request that does not end in 201 leaves
\* no new image file in storage: every stored image file is referenced by
\* some product row.
C30_ArchivoReferenciado ==
    \A f \in archivos.files :
        \E id \in DOMAIN db.productos : f \in db.productos[id].imagen_url

====
